---- MODULE Spec2Model ----
(***************************************************************************)
(* Combat simulation core of magebonk: the horde director (EnemyManager),  *)
(* the enemies it owns (Enemy) and the frame loop that drives them (Game,  *)
(* SpellManager).                                                          *)
(*                                                                         *)
(* Time is counted in tenths of a second: Game.animate clamps a frame's    *)
(* deltaTime to 0.1 s, so one frame advances the simulation by FrameDelta  *)
(* = 1 tenth, and never by more than the wall clock advanced.  Deferred    *)
(* spawns are browser timeouts: they run on the wall clock, between        *)
(* frames (JavaScript runs one callback at a time).                         *)
(***************************************************************************)
EXTENDS Integers, Sequences, FiniteSets, TLC

\* ---------------------------------------------------------------- bounds
MaxLevel == 6          \* highest horde level explored
MaxHitsPerFrame == 2   \* projectiles that strike an enemy in one frame
MaxClones == 6         \* clones, live or scheduled, while the player fights
MaxUnfoughtClones == 18  \* clones, live or scheduled, while the player does not
MaxDelta == 12         \* longest dt, in tenths, passed to the director alone
MaxPhysicsDelta == 30  \* longest dt, in hundredths, of an enemy's update alone
MaxPush == 400         \* largest pushForce, in hundredths, knockbacks build up
MaxSummoned == 6       \* clones, live or scheduled, when summons are placed
MaxFlock == 3          \* enemies on the line when separation is taken alone
MaxFlight == 1         \* projectiles cast when their flight is followed
MaxAttacks == 2        \* attacks of the enemy whose attacks are followed
MaxClock == 20         \* tenths of a second its clock runs for
MaxUpdates == 4        \* updates of an enemy with the player kept at one distance
FarIntensity == 250    \* largest intensity, in hundredths, asked for, either sign
MaxCast == 3           \* projectiles cast when the spells are taken alone
MaxBlows == 3          \* calls of takeDamage on an enemy followed on its own
MaxTimers == 2         \* timers of one enemy that are set and have not run
MaxArray == 2          \* enemies in the array when deaths are taken alone

\* ------------------------------------------------------ program constants
RestDuration == 50        \* this.stateTimer = 5.0
AnnounceDuration == 30    \* this.stateTimer = 3.0
CountdownDuration == 35   \* this.stateTimer = 3.5
VictoryDuration == 30     \* this.stateTimer = 3.0
SpawnDelay == 5           \* setTimeout(..., 500)
SummonInterval == 80      \* this.summonInterval = 8.0
FrameDelta == 1           \* Math.min(elapsed, 0.1)
maxActiveEnemies == 15
FireballDamage == 25
IceDamage == 20
CountdownStart == 4       \* this.lastCountdownInt = 4
friction == 4             \* this.friction = 4.0
FireballKnockback == 200  \* knockbackForce 2.0, in hundredths
IceKnockback == 100       \* knockbackForce 1.0, in hundredths
ChaseMoveThreshold == 100 \* this.pushForce.length() < 1.0, in hundredths
StunRecovery == 50        \* this.pushForce.length() < 0.5, in hundredths
ArenaLimit == 45          \* Math.max(-45, Math.min(45, spawnX))
separationRadius == 250   \* this.separationRadius = 2.5, in hundredths
SEPARATION_FORCE_MULTIPLIER == 120  \* 1.2, in hundredths
ProjectileLife == 30      \* this.life = 3.0, in tenths
attackCooldown == 15      \* this.attackCooldown = 1500, in tenths of a second
MinIntensity == 30        \* Math.max(0.3, ...), in hundredths
MaxIntensity == 200       \* Math.min(2.0, intensity), in hundredths
baseRadius == 84          \* const baseRadius = 8.4, in tenths
IceRadius == 300          \* this.radius = 0.3, in thousandths

STATE_REST == "REST"
STATE_ANNOUNCE == "ANNOUNCE"
STATE_COUNTDOWN == "COUNTDOWN"
STATE_WAVE == "WAVE"
STATE_VICTORY == "VICTORY"

States == {STATE_REST, STATE_ANNOUNCE, STATE_COUNTDOWN, STATE_WAVE, STATE_VICTORY}
Kinds == {"normal", "miniBoss", "boss", "clone"}
ProjectileTypes == {"fireball", "ice"}
\* the spells cast in the explored runs: the left mouse button (Game.setupSpells)
CastTypes == {"fireball"}

VARIABLES
  state,                \* EnemyManager.state
  hordeLevel,           \* EnemyManager.hordeLevel
  stateTimer,           \* EnemyManager.stateTimer, in tenths of a second
  lastCountdownInt,     \* EnemyManager.lastCountdownInt (0: not yet set)
  totalEnemiesInWave,
  enemiesSpawnedCount,
  enemiesKilledCount,
  pendingSpawns,
  currentBoss,          \* index into enemies of the boss referred to, 0: null
  enemies,              \* EnemyManager.enemies, in array order
  spawnTimeouts,        \* timeouts set by executeSpawn, oldest first
  pc,                   \* "idle": between frames; "spells": inside Game.update,
                        \* SpellManager.update running, EnemyManager.update to come
  hitsThisFrame,        \* projectiles that struck an enemy in this frame
  victoryEntries,       \* calls of enterVictoryState since the last enterWaveState
  ticks,                \* values shown by showOverlayText since the last
                        \* enterCountdownState, oldest first
  staleEffect,          \* a timeout acted on a wave other than the one that set it
  loneEnemy,            \* kind, state and pushForce of one Enemy followed on its
                        \* own (SpecPhysics); pushForce along the line of the
                        \* knockbacks, in hundredths
  projectileObjects,    \* every Projectile created so far (SpecProjectiles)
  projectiles,          \* SpellManager.projectiles: indices into projectileObjects
  loopIndex,            \* position of the loop of SpellManager.update, 0: done
  frameLog,             \* what the last call of Game.update has updated so far,
                        \* in order
  isPaused              \* Game.isPaused

vars == <<state, hordeLevel, stateTimer, lastCountdownInt, totalEnemiesInWave,
          enemiesSpawnedCount, enemiesKilledCount, pendingSpawns, currentBoss,
          enemies, spawnTimeouts, pc, hitsThisFrame, victoryEntries,
          ticks, staleEffect, loneEnemy, projectiles, projectileObjects,
          loopIndex, frameLog, isPaused>>

Max(a, b) == IF a >= b THEN a ELSE b
Min(a, b) == IF a <= b THEN a ELSE b

\* ------------------------------------------------------------------ Enemy

\* Enemy.constructor: the fields of an enemy the director and the combat
\* resolution read or write.  kind stands for config.isBoss / config.isMiniBoss
\* / config.type; maxHp is config.hp; disposed is mesh === null.
\* dieCalls, deathNotices and knocked record calls: of die(), of
\* handleEnemyDeath(this), and of takeDamage with a knockback direction.
NewEnemy(config) ==
  [kind |-> config.kind, hp |-> config.hp, maxHp |-> config.hp,
   isDead |-> FALSE, disposed |-> FALSE, summonTimer |-> 0,
   dieCalls |-> 0, deathNotices |-> 0, knocked |-> FALSE]

isAlive(e) == ~e.isDead

\* --------------------------------------------- Enemy: AI state and knockback

AIStates == {"wandering", "chasing", "attacking", "stunned"}

\* Enemy.constructor: this.state = 'wandering', this.pushForce = (0, 0, 0)
NewBody(kind) == [kind |-> kind, state |-> "wandering", pushForce |-> 0]

Abs(x) == IF x < 0 THEN -x ELSE x

\* where the player stands for an enemy: within attackRange ("reach"), within
\* 1.5 attackRange ("close"), within detectionRadius ("seen"), within twice
\* detectionRadius ("far"), beyond ("lost")
Zones == {"reach", "close", "seen", "far", "lost"}

\* x * factor / 100, rounded toward zero
Scale(x, factor) ==
  IF x >= 0 THEN (x * factor) \div 100 ELSE -(((-x) * factor) \div 100)

applyPhysicsGain(b, dt) ==
  [b EXCEPT !.pushForce = Scale(@, 100 + (friction * dt))]
\* Enemy.applyPhysics: pushForce *= Math.max(0, 1 - friction * dt), dt in
\* hundredths of a second
applyPhysics(b, dt) ==
  [b EXCEPT !.pushForce = Scale(@, Max(0, 100 - (friction * dt)))]

updateWanderingStrike(b, dt, zone) ==
  IF zone = "reach" THEN [b EXCEPT !.state = "attacking"]
  ELSE IF zone \in {"close", "seen"} THEN [b EXCEPT !.state = "chasing"]
  ELSE b
\* Enemy.updateWandering: pushForce is not touched
updateWandering(b, dt, zone) ==
  IF zone \in {"reach", "close", "seen"}
    THEN [b EXCEPT !.state = "chasing"] ELSE b

updateChasingEager(b, dt, zone) ==
  IF zone = "lost" THEN [b EXCEPT !.state = "wandering"]
  ELSE IF zone \in {"reach", "close", "seen"}
    THEN [b EXCEPT !.state = "attacking"]
  ELSE IF Abs(b.pushForce) < ChaseMoveThreshold THEN b
  ELSE applyPhysics(b, dt)
\* Enemy.updateChasing
updateChasing(b, dt, zone) ==
  IF zone = "lost" THEN [b EXCEPT !.state = "wandering"]
  ELSE IF zone = "reach" THEN [b EXCEPT !.state = "attacking"]
  ELSE IF Abs(b.pushForce) < ChaseMoveThreshold THEN b
  ELSE applyPhysics(b, dt)

\* Enemy.updateAttacking
updateAttacking(b, dt, zone) ==
  IF zone \notin {"reach", "close"} THEN [b EXCEPT !.state = "chasing"]
  ELSE applyPhysics(b, dt)

updateStunnedHeld(b, dt, zone) ==
  LET b1 == applyPhysics(b, dt)
  IN  IF Abs(b1.pushForce) < 0
        THEN [b1 EXCEPT !.state = "chasing"] ELSE b1
\* Enemy.updateStunned
updateStunned(b, dt, zone) ==
  LET b1 == applyPhysics(b, dt)
  IN  IF Abs(b1.pushForce) < StunRecovery
        THEN [b1 EXCEPT !.state = "chasing"] ELSE b1

\* Enemy.update: the state machine of the AI
updateBody(b, dt, zone) ==
  CASE b.state = "wandering" -> updateWandering(b, dt, zone)
    [] b.state = "chasing" -> updateChasing(b, dt, zone)
    [] b.state = "attacking" -> updateAttacking(b, dt, zone)
    [] b.state = "stunned" -> updateStunned(b, dt, zone)

\* Enemy.takeDamage: resistance, in hundredths
Resistance(kind) ==
  IF kind = "boss" THEN 10 ELSE IF kind = "miniBoss" THEN 50 ELSE 100

KnockbackForce(type) ==
  IF type = "fireball" THEN FireballKnockback ELSE IceKnockback

knockBodyUnstunned(b, type, sign) ==
  [b EXCEPT
     !.pushForce = @ + sign * Scale(KnockbackForce(type), Resistance(b.kind)),
     !.state = IF @ = "wandering" THEN "chasing" ELSE @]
\* Enemy.takeDamage that leaves the enemy alive, with a knockback direction
\* (sign 1 or -1 along the line) or without one (sign 0)
knockBody(b, type, sign) ==
  LET b1 == IF b.state = "wandering" THEN [b EXCEPT !.state = "chasing"] ELSE b
  IN  IF sign = 0 THEN b1
      ELSE [b1 EXCEPT
              !.pushForce = @ + sign * Scale(KnockbackForce(type),
                                             Resistance(b.kind)),
              !.state = "stunned"]

\* ------------------------------------- Enemy: the vertical parts of the vectors

\* THREE.Vector3.normalize, on a vector whose parts are -1, 0 or 1; the result
\* in hundredths (the zero vector stays zero)
normalize(v) ==
  LET unit == IF (v.x * v.x) + (v.y * v.y) = 2 THEN 71 ELSE 100
  IN  [x |-> v.x * unit, y |-> v.y * unit]

\* the square of THREE.Vector3.length
lengthSq(v) == (v.x * v.x) + (v.y * v.y)

\* Enemy.constructor: this.position = position.clone(); this.position.y = 0.
\* x runs along the line of the knockbacks, y is the height; of position only
\* the height is kept.  spawnedAt and lifted record the inputs: the height
\* asked for, and whether the last knockback direction pointed up or down.
NewStanding(kind, height) ==
  LET position == [y |-> height]
  IN  [kind |-> kind, state |-> "wandering",
       position |-> [position EXCEPT !.y = 0],
       pushForce |-> [x |-> 0, y |-> 0],
       spawnedAt |-> height, lifted |-> FALSE]

\* config.speed of the archetypes (spawnNextEnemy, bossSummon)
Speed(kind) == IF kind = "boss" THEN 2 ELSE IF kind = "clone" THEN 6 ELSE 3

standingTakeDamageSteep(b, type, knockbackDir) ==
  LET dir == normalize(knockbackDir)
      force == Scale(KnockbackForce(type), Resistance(b.kind))
  IN  [b EXCEPT
         !.pushForce = [x |-> @.x + Scale(dir.x, force),
                        y |-> @.y + Scale(dir.y, force)],
         !.state = "stunned",
         !.lifted = knockbackDir.y # 0]
\* Enemy.takeDamage that leaves the enemy alive, with the knockback direction
\* checkProjectileHit hands it: knockbackDir.y = 0, then normalize
standingTakeDamage(b, type, knockbackDir) ==
  LET dir == normalize([knockbackDir EXCEPT !.y = 0])
      force == Scale(KnockbackForce(type), Resistance(b.kind))
  IN  [b EXCEPT
         !.pushForce = [x |-> @.x + Scale(dir.x, force),
                        y |-> @.y + Scale(dir.y, force)],
         !.state = "stunned",
         !.lifted = knockbackDir.y # 0]

\* Enemy.applyPhysics on both parts
standingPhysics(b, dt) ==
  LET keep == Max(0, 100 - (friction * dt))
  IN  [b EXCEPT
         !.position.y = @ + Scale(b.pushForce.y, dt),
         !.pushForce = [x |-> Scale(@.x, keep), y |-> Scale(@.y, keep)]]

\* the step of updateWandering and updateChasing: the direction is built as
\* (target.x - position.x, 0, target.z - position.z) and normalized
standingWalk(b, dt, target) ==
  LET direction == normalize([x |-> target.x, y |-> 0])
  IN  [b EXCEPT !.position.y = @ + Scale(direction.y * Speed(b.kind), dt)]

standingUpdateEarly(b, dt, zone, playerPos) ==
  CASE b.state = "wandering" ->
         IF zone \in {"reach", "close", "seen"}
           THEN [b EXCEPT !.state = "chasing"]
           ELSE standingWalk(b, dt, [x |-> -playerPos.x, y |-> b.position.y])
    [] b.state = "chasing" ->
         IF zone = "lost" THEN [b EXCEPT !.state = "wandering"]
         ELSE IF zone = "reach" THEN [b EXCEPT !.state = "attacking"]
         ELSE IF lengthSq(b.pushForce) < ChaseMoveThreshold * ChaseMoveThreshold
           THEN standingWalk(b, dt, playerPos)
         ELSE standingPhysics(b, dt)
    [] b.state = "attacking" ->
         IF zone \notin {"reach", "close"} THEN [b EXCEPT !.state = "chasing"]
         ELSE standingPhysics(b, dt)
    [] b.state = "stunned" ->
         LET b1 == standingPhysics(b, dt)
         IN  IF lengthSq(b1.pushForce) < ChaseMoveThreshold * ChaseMoveThreshold
               THEN [b1 EXCEPT !.state = "chasing"] ELSE b1
\* Enemy.update with the player at playerPos (x: -1 or 1, the side the player
\* is on; y: the height of the player)
standingUpdate(b, dt, zone, playerPos) ==
  CASE b.state = "wandering" ->
         IF zone \in {"reach", "close", "seen"}
           THEN [b EXCEPT !.state = "chasing"]
           ELSE standingWalk(b, dt, [x |-> -playerPos.x, y |-> b.position.y])
    [] b.state = "chasing" ->
         IF zone = "lost" THEN [b EXCEPT !.state = "wandering"]
         ELSE IF zone = "reach" THEN [b EXCEPT !.state = "attacking"]
         ELSE IF lengthSq(b.pushForce) < ChaseMoveThreshold * ChaseMoveThreshold
           THEN standingWalk(b, dt, playerPos)
         ELSE standingPhysics(b, dt)
    [] b.state = "attacking" ->
         IF zone \notin {"reach", "close"} THEN [b EXCEPT !.state = "chasing"]
         ELSE standingPhysics(b, dt)
    [] b.state = "stunned" ->
         LET b1 == standingPhysics(b, dt)
         IN  IF lengthSq(b1.pushForce) < StunRecovery * StunRecovery
               THEN [b1 EXCEPT !.state = "chasing"] ELSE b1

\* ------------------------------------- Enemy: life, timers and the whole update

\* Enemy.constructor, every field the enemy's own methods read or write.
\* timeouts: the browser timers the enemy has set and that have not run,
\* tracked when their id is in activeTimeouts.  acts: what the last update
\* did to others (the player struck, a summon requested).  cleared counts the
\* timers dispose has cancelled; blows counts the calls of takeDamage;
\* ranAfterDispose records a timer callback that ran with the enemy disposed.
FullBody(config) ==
  [kind |-> config.kind, state |-> "wandering", pushForce |-> 0,
   hp |-> config.hp, isDead |-> FALSE, disposed |-> FALSE, summonTimer |-> 0,
   timeouts |-> <<>>, acts |-> {}, cleared |-> 0, blows |-> 0,
   ranAfterDispose |-> FALSE]

\* setTimeout(...) followed by this.activeTimeouts.push(tId)
schedule(b, what) ==
  [b EXCEPT !.timeouts = Append(@, [what |-> what, tracked |-> TRUE])]

\* Enemy.dispose: clearTimeout for every id of activeTimeouts; mesh = null
bodyDispose(b) ==
  LET kept == SelectSeq(b.timeouts, LAMBDA t : ~t.tracked)
  IN  [b EXCEPT !.timeouts = kept,
                !.cleared = @ + (Len(b.timeouts) - Len(kept)),
                !.disposed = TRUE]

\* Enemy.die, as far as the enemy itself goes
bodyDie(b) == bodyDispose([b EXCEPT !.isDead = TRUE])

fullTakeDamageDieFirst(b, amount, type, sign) ==
  LET b1 == knockBody([b EXCEPT !.hp = @ - amount, !.blows = @ + 1],
                      type, sign)
      b2 == IF b1.hp <= 0 THEN bodyDie(b1) ELSE b1
  IN  schedule(b2, "flash")
\* Enemy.takeDamage(amount, knockbackDir, knockbackForce): the flash timer is
\* set before the test of hp
fullTakeDamage(b, amount, type, sign) ==
  LET b1 == knockBody([b EXCEPT !.hp = @ - amount, !.blows = @ + 1],
                      type, sign)
      b2 == schedule(b1, "flash")
  IN  IF b2.hp <= 0 THEN bodyDie(b2) ELSE b2

\* Enemy.attackPlayer: player.takeDamage, and the timer that resets the lunge
attackPlayer(b) ==
  schedule([b EXCEPT !.acts = @ \cup {"attack"}], "lunge")

\* Enemy.updateAttacking with the attack; due: the cooldown has passed
updateAttackingDue(b, dt, zone, due) ==
  IF zone \notin {"reach", "close"} THEN [b EXCEPT !.state = "chasing"]
  ELSE applyPhysics(IF due THEN attackPlayer(b) ELSE b, dt)

\* the boss's part of Enemy.update; the interval is in tenths, dt in hundredths
summonStep(b, dt) ==
  IF b.kind # "boss" THEN b
  ELSE IF b.summonTimer + dt >= SummonInterval * 10
    THEN [b EXCEPT !.summonTimer = 0, !.acts = @ \cup {"summon"}]
    ELSE [b EXCEPT !.summonTimer = @ + dt]

fullUpdateUnguarded(b, dt, zone, due) ==
  LET b1 == summonStep([b EXCEPT !.acts = {}], dt)
  IN  IF b1.state = "attacking"
        THEN updateAttackingDue(b1, dt, zone, due)
        ELSE updateBody(b1, dt, zone)
\* Enemy.update(dt)
fullUpdate(b, dt, zone, due) ==
  IF b.isDead \/ b.disposed THEN b
  ELSE LET b1 == summonStep([b EXCEPT !.acts = {}], dt)
       IN  IF b1.state = "attacking"
             THEN updateAttackingDue(b1, dt, zone, due)
             ELSE updateBody(b1, dt, zone)

\* a timer of the enemy runs its callback
timerRuns(b, k) ==
  [b EXCEPT !.timeouts = SubSeq(@, 1, k - 1) \o SubSeq(@, k + 1, Len(@)),
            !.ranAfterDispose = @ \/ b.disposed]

\* config.damage of the archetypes: the default, the mini-boss of
\* spawnNextEnemy and the clone of bossSummon
Damage(kind) ==
  IF kind = "miniBoss" THEN 20 ELSE IF kind = "clone" THEN 5 ELSE 10

\* Enemy.constructor with the clock of the attacks: lastAttackTime = 0.
\* Times are Date.now() in tenths of a second.  now is the clock when it was
\* last read; near tells whether the player stood within 1.5 attackRange at
\* the last update; taken is the sum of what player.takeDamage was handed;
\* attacks counts its calls.
NewAttacker(kind, now) ==
  [kind |-> kind, state |-> "wandering", pushForce |-> 0, isDead |-> FALSE,
   lastAttackTime |-> 0, now |-> now, near |-> FALSE, taken |-> 0,
   attacks |-> 0]

\* Enemy.attackPlayer, at clock time now
attackPlayerAt(b, now) ==
  [b EXCEPT !.lastAttackTime = now,
            !.taken = @ + Damage(b.kind),
            !.attacks = @ + 1]

updateAttackingAtEager(b, dt, zone, now, lag) ==
  IF zone \notin {"reach", "close"} THEN [b EXCEPT !.state = "chasing"]
  ELSE applyPhysics(IF now - b.lastAttackTime >= attackCooldown
                      THEN attackPlayerAt(b, now + lag) ELSE b, dt)
\* Enemy.updateAttacking with the clock: Date.now() is read once for the
\* test and, lag later, once more in attackPlayer
updateAttackingAt(b, dt, zone, now, lag) ==
  IF zone \notin {"reach", "close"} THEN [b EXCEPT !.state = "chasing"]
  ELSE applyPhysics(IF now - b.lastAttackTime > attackCooldown
                      THEN attackPlayerAt(b, now + lag) ELSE b, dt)

\* Enemy.update(dt) at clock time now, the player in zone
attackerUpdate(b, dt, zone, now, lag) ==
  IF b.isDead THEN b
  ELSE LET b1 == [b EXCEPT !.near = zone \in {"reach", "close"}]
       IN  IF b1.state = "attacking"
             THEN updateAttackingAt(b1, dt, zone, now, lag)
             ELSE updateBody(b1, dt, zone)

\* handleEnemyDeath: other.takeDamage(9999, null, 0)
CascadeDamageWeak == IceDamage \div 2
CascadeDamage == 9999

\* The manager as a record, so that handlers chain as they do in the code.
Manager ==
  [state |-> state, hordeLevel |-> hordeLevel, stateTimer |-> stateTimer,
   lastCountdownInt |-> lastCountdownInt,
   totalEnemiesInWave |-> totalEnemiesInWave,
   enemiesSpawnedCount |-> enemiesSpawnedCount,
   enemiesKilledCount |-> enemiesKilledCount,
   pendingSpawns |-> pendingSpawns, currentBoss |-> currentBoss,
   enemies |-> enemies, spawnTimeouts |-> spawnTimeouts,
   victoryEntries |-> victoryEntries, ticks |-> ticks]

RECURSIVE takeDamage(_, _, _, _), cascade(_, _)

handleEnemyDeathCountsClones(m, i) ==
  LET isBoss == m.enemies[i].kind = "boss"
      counts == m.state = STATE_WAVE
      m1 == [m EXCEPT !.enemies[i].deathNotices = @ + 1]
      m2 == IF isBoss
              THEN cascade([m1 EXCEPT !.currentBoss = 0], Len(m1.enemies))
              ELSE m1
  IN  IF counts THEN [m2 EXCEPT !.enemiesKilledCount = @ + 1] ELSE m2
\* EnemyManager.handleEnemyDeath(enemy), enemy = m.enemies[i]
handleEnemyDeath(m, i) ==
  LET isBoss == m.enemies[i].kind = "boss"
      counts == m.state = STATE_WAVE /\ m.enemies[i].kind # "clone"
      m1 == [m EXCEPT !.enemies[i].deathNotices = @ + 1]
      m2 == IF isBoss
              THEN cascade([m1 EXCEPT !.currentBoss = 0], Len(m1.enemies))
              ELSE m1
  IN  IF counts THEN [m2 EXCEPT !.enemiesKilledCount = @ + 1] ELSE m2

\* Enemy.die
die(m, i) ==
  handleEnemyDeath(
    [m EXCEPT !.enemies[i].isDead = TRUE,
              !.enemies[i].disposed = TRUE,
              !.enemies[i].dieCalls = @ + 1], i)

\* Enemy.takeDamage(amount, knockbackDir, knockbackForce) on m.enemies[i];
\* knockback: a knockback direction was passed.  hp is not clamped.
takeDamage(m, i, amount, knockback) ==
  LET m1 == [m EXCEPT !.enemies[i].hp = @ - amount,
                      !.enemies[i].knocked = @ \/ knockback]
  IN  IF m1.enemies[i].hp <= 0 THEN die(m1, i) ELSE m1

cascadeSpares(m, j) == m
\* the loop of handleEnemyDeath over this.enemies, from index j down to 1
cascade(m, j) ==
  IF j = 0 THEN m
  ELSE LET other == m.enemies[j]
           m1 == IF other.kind = "clone" /\ isAlive(other)
                   THEN takeDamage(m, j, CascadeDamage, FALSE)
                   ELSE m
       IN  cascade(m1, j - 1)

\* ------------------------------------------------------------ EnemyManager

calculateWaveSizeFlat(level) == 5 + (level * 2)
\* EnemyManager.calculateWaveSize
calculateWaveSize(level) ==
  IF level % 5 = 0 THEN 1 ELSE 5 + (level * 2)

SpawnConfigOffByOne(level, spawned) ==
  IF level % 5 = 0
    THEN [kind |-> "boss", hp |-> 400 + (level * 50)]
    ELSE IF level % 2 = 0 /\ spawned < level \div 2
           THEN [kind |-> "miniBoss", hp |-> 120 + (level * 15)]
           ELSE [kind |-> "normal", hp |-> 20 + (level * 2)]
\* the config spawnNextEnemy builds, enemiesSpawnedCount already incremented
SpawnConfig(level, spawned) ==
  IF level % 5 = 0
    THEN [kind |-> "boss", hp |-> 400 + (level * 50)]
    ELSE IF level % 2 = 0 /\ spawned <= level \div 2
           THEN [kind |-> "miniBoss", hp |-> 120 + (level * 15)]
           ELSE [kind |-> "normal", hp |-> 20 + (level * 2)]

\* the config bossSummon builds
CloneConfig(level) == [kind |-> "clone", hp |-> 15 + level]

\* EnemyManager.executeSpawn: schedules the timeout.  stale is set once the
\* wave that scheduled it has been left ("left") and once a later wave has
\* been entered ("superseded").
executeSpawn(m, config) ==
  [m EXCEPT !.spawnTimeouts =
     Append(@, [remaining |-> SpawnDelay, config |-> config, stale |-> "no"])]

MarkLeft(timeouts) ==
  [k \in 1..Len(timeouts) |->
     IF timeouts[k].stale = "no" THEN [timeouts[k] EXCEPT !.stale = "left"]
     ELSE timeouts[k]]

MarkSuperseded(timeouts) ==
  [k \in 1..Len(timeouts) |-> [timeouts[k] EXCEPT !.stale = "superseded"]]

spawnNextEnemyUnpended(m) ==
  LET m1 == [m EXCEPT !.enemiesSpawnedCount = @ + 1]
  IN  executeSpawn(m1, SpawnConfig(m1.hordeLevel, m1.enemiesSpawnedCount))
\* EnemyManager.spawnNextEnemy
spawnNextEnemy(m) ==
  LET m1 == [m EXCEPT !.enemiesSpawnedCount = @ + 1, !.pendingSpawns = @ + 1]
  IN  executeSpawn(m1, SpawnConfig(m1.hordeLevel, m1.enemiesSpawnedCount))

RECURSIVE summonBatch(_, _)
\* EnemyManager.bossSummon: count clones, count drawn from 3..6
summonBatch(m, count) ==
  IF count = 0 THEN m
  ELSE summonBatch(executeSpawn(m, CloneConfig(m.hordeLevel)), count - 1)

bossSummon(m, count) == summonBatch(m, count)

clampToArenaEast(v) == Min(ArenaLimit, v)
\* bossSummon: Math.max(-45, Math.min(45, v))
clampToArena(v) == Max(-ArenaLimit, Min(ArenaLimit, v))

\* bossSummon: the position of a clone, from the boss's position and the
\* offset cos(angle) * dist, sin(angle) * dist, in whole units
summonPosition(bossPos, offset) ==
  [x |-> clampToArena(bossPos.x + offset.x),
   z |-> clampToArena(bossPos.z + offset.z)]

\* bossSummon with the positions: the clone requests added after the first
\* `before` timeouts are the batch (Batch), and the j-th of them is requested
\* at the position its offset gives (placeBatch)
Batch(m, before) ==
  {k \in (before + 1)..Len(m.spawnTimeouts) :
     m.spawnTimeouts[k].config.kind = "clone"}

BatchSize(m, before) == Cardinality(Batch(m, before))

placeBatch(m, before, bossPos, offsets) ==
  LET batch == Batch(m, before)
      rank(k) == Cardinality({j \in batch : j <= k})
  IN  [m EXCEPT !.spawnTimeouts =
         [k \in 1..Len(@) |->
            IF k \in batch
              THEN [remaining |-> @[k].remaining, config |-> @[k].config,
                    stale |-> @[k].stale,
                    pos |-> summonPosition(bossPos, offsets[rank(k)])]
              ELSE @[k]]]

\* EnemyManager.enterAnnounceState
enterAnnounceState(m) ==
  [m EXCEPT !.state = STATE_ANNOUNCE, !.stateTimer = AnnounceDuration]

enterCountdownStateLate(m) ==
  [m EXCEPT !.state = STATE_COUNTDOWN, !.stateTimer = CountdownDuration,
            !.lastCountdownInt = CountdownStart - 1,
            !.ticks = <<>>]
\* EnemyManager.enterCountdownState
enterCountdownState(m) ==
  [m EXCEPT !.state = STATE_COUNTDOWN, !.stateTimer = CountdownDuration,
            !.lastCountdownInt = CountdownStart,
            !.ticks = <<>>]

\* EnemyManager.enterWaveState
enterWaveState(m) ==
  [m EXCEPT !.state = STATE_WAVE,
            !.totalEnemiesInWave = calculateWaveSize(m.hordeLevel),
            !.enemiesSpawnedCount = 0,
            !.enemiesKilledCount = 0,
            !.pendingSpawns = 0,
            !.currentBoss = 0,
            !.victoryEntries = 0,
            !.spawnTimeouts = MarkSuperseded(@)]

\* EnemyManager.enterVictoryState
enterVictoryState(m) ==
  [m EXCEPT !.state = STATE_VICTORY, !.stateTimer = VictoryDuration,
            !.victoryEntries = @ + 1,
            !.spawnTimeouts = MarkLeft(@)]

\* EnemyManager.updateRestState
updateRestState(m, dt) ==
  LET m1 == [m EXCEPT !.stateTimer = @ - dt]
  IN  IF m1.stateTimer <= 0 THEN enterAnnounceState(m1) ELSE m1

updateAnnounceStateSkip(m, dt) ==
  LET m1 == [m EXCEPT !.stateTimer = @ - dt]
  IN  IF m1.stateTimer <= 0 THEN enterWaveState(m1) ELSE m1
\* EnemyManager.updateAnnounceState
updateAnnounceState(m, dt) ==
  LET m1 == [m EXCEPT !.stateTimer = @ - dt]
  IN  IF m1.stateTimer <= 0 THEN enterCountdownState(m1) ELSE m1

\* Math.ceil(t) for t in tenths
CeilSeconds(t) == IF t >= 0 THEN (t + 9) \div 10 ELSE -((-t) \div 10)

updateCountdownStateToZero(m, dt) ==
  LET m1 == [m EXCEPT !.stateTimer = @ - dt]
      currentInt == CeilSeconds(m1.stateTimer)
      m2 == IF currentInt < m1.lastCountdownInt
              THEN [m1 EXCEPT !.lastCountdownInt = currentInt,
                              !.ticks = Append(@, currentInt)]
              ELSE m1
  IN  IF m2.stateTimer <= 0 THEN enterWaveState(m2) ELSE m2
\* EnemyManager.updateCountdownState; showOverlayText(currentInt.toString(),
\* "overlay-countdown") is the tick
updateCountdownState(m, dt) ==
  LET m1 == [m EXCEPT !.stateTimer = @ - dt]
      currentInt == CeilSeconds(m1.stateTimer)
      m2 == IF currentInt < m1.lastCountdownInt /\ currentInt > 0
              THEN [m1 EXCEPT !.lastCountdownInt = currentInt,
                              !.ticks = Append(@, currentInt)]
              ELSE m1
  IN  IF m2.stateTimer <= 0 THEN enterWaveState(m2) ELSE m2

SpawnAllowedNoTotal(m) ==
  Len(m.enemies) + m.pendingSpawns < maxActiveEnemies
\* the spawn condition of updateWaveState
SpawnAllowed(m) ==
  /\ m.enemiesSpawnedCount < m.totalEnemiesInWave
  /\ Len(m.enemies) + m.pendingSpawns < maxActiveEnemies

WaveCompleteEarly(m) == m.enemiesKilledCount >= m.totalEnemiesInWave - 1
\* the victory condition of updateWaveState
WaveComplete(m) == m.enemiesKilledCount >= m.totalEnemiesInWave

updateWaveStateStuck(m, dt) ==
  IF SpawnAllowed(m) THEN spawnNextEnemy(m) ELSE m
\* EnemyManager.updateWaveState
updateWaveState(m, dt) ==
  LET m1 == IF SpawnAllowed(m) THEN spawnNextEnemy(m) ELSE m
  IN  IF WaveComplete(m1) THEN enterVictoryState(m1) ELSE m1

updateVictoryStateKeepLevel(m, dt) ==
  LET m1 == [m EXCEPT !.stateTimer = @ - dt]
  IN  IF m1.stateTimer <= 0
        THEN [m1 EXCEPT !.state = STATE_REST, !.stateTimer = RestDuration]
        ELSE m1
\* EnemyManager.updateVictoryState
updateVictoryState(m, dt) ==
  LET m1 == [m EXCEPT !.stateTimer = @ - dt]
  IN  IF m1.stateTimer <= 0
        THEN [m1 EXCEPT !.hordeLevel = @ + 1, !.state = STATE_REST,
                        !.stateTimer = RestDuration]
        ELSE m1

\* Enemy.update(dt) on m.enemies[i]: the boss's summon timer.  The AI state
\* machine and the movement of Enemy.update touch no field of this record.
enemyUpdate(m, i, dt, count) ==
  LET e == m.enemies[i]
  IN  IF e.isDead \/ e.disposed THEN m
      ELSE IF e.kind = "boss"
        THEN LET t == e.summonTimer + dt
             IN  IF t >= SummonInterval
                   THEN bossSummon([m EXCEPT !.enemies[i].summonTimer = 0], count)
                   ELSE [m EXCEPT !.enemies[i].summonTimer = t]
        ELSE m

\* this.enemies.splice(i, 1); the boss reference follows its enemy, and is
\* -1 when it refers to an enemy that is no longer in the array
splice(m, i) ==
  [m EXCEPT !.enemies = SubSeq(@, 1, i - 1) \o SubSeq(@, i + 1, Len(@)),
            !.currentBoss = IF @ = i THEN -1
                            ELSE IF @ > i THEN @ - 1 ELSE @]

RECURSIVE updateEnemies(_, _, _, _)
\* the loop of EnemyManager.update over this.enemies, from index i down to 1
updateEnemies(m, i, dt, count) ==
  IF i = 0 THEN m
  ELSE CHOOSE r \in
         {updateEnemies(m2, i - 1, dt, count) :
            m2 \in {IF ~isAlive(m1.enemies[i]) THEN splice(m1, i) ELSE m1 :
                      m1 \in {enemyUpdate(m, i, dt, count)}}} : TRUE

\* EnemyManager.update(dt)
update(m, dt, count) ==
  LET m1 == CASE m.state = STATE_REST -> updateRestState(m, dt)
              [] m.state = STATE_ANNOUNCE -> updateAnnounceState(m, dt)
              [] m.state = STATE_COUNTDOWN -> updateCountdownState(m, dt)
              [] m.state = STATE_WAVE -> updateWaveState(m, dt)
              [] m.state = STATE_VICTORY -> updateVictoryState(m, dt)
  IN  CHOOSE r \in {updateEnemies(m2, Len(m2.enemies), dt, count) :
                      m2 \in {m1}} : TRUE

\* clearAllEnemies: this.enemies.forEach(e => e.dispose())
disposeAll(es) == [i \in 1..Len(es) |-> [es[i] EXCEPT !.disposed = TRUE]]

clearAllEnemiesOfKeepTimer(m) ==
  [m EXCEPT !.enemies = <<>>, !.pendingSpawns = 0, !.hordeLevel = 1,
            !.currentBoss = 0, !.state = STATE_REST,
            !.spawnTimeouts = MarkLeft(@)]
\* EnemyManager.clearAllEnemies: every enemy is disposed and dropped.  The
\* timeouts of executeSpawn are not cleared; the wave counters are not written.
clearAllEnemiesOf(m) ==
  [m EXCEPT !.enemies = <<>>, !.pendingSpawns = 0, !.hordeLevel = 1,
            !.currentBoss = 0, !.state = STATE_REST,
            !.stateTimer = RestDuration,
            !.spawnTimeouts = MarkLeft(@)]

SpawnStateValidAlways(m) == TRUE
\* the validation of the timeout of executeSpawn
SpawnStateValid(m) == m.state = STATE_WAVE \/ m.state = STATE_ANNOUNCE

PendingAfterTimeoutRaw(p) == p - 1
\* this.pendingSpawns = Math.max(0, this.pendingSpawns - 1)
PendingAfterTimeout(p) == Max(0, p - 1)

spawnCallbackCrownsAll(m) ==
  LET t == Head(m.spawnTimeouts)
      m1 == [m EXCEPT !.spawnTimeouts = Tail(@),
                      !.pendingSpawns = PendingAfterTimeout(@)]
  IN  IF ~SpawnStateValid(m1) THEN m1
      ELSE [m1 EXCEPT !.enemies = Append(@, NewEnemy(t.config)),
                      !.currentBoss = Len(m1.enemies) + 1]
\* the callback of the timeout of executeSpawn, for the oldest timeout
spawnCallback(m) ==
  LET t == Head(m.spawnTimeouts)
      m1 == [m EXCEPT !.spawnTimeouts = Tail(@),
                      !.pendingSpawns = PendingAfterTimeout(@)]
  IN  IF ~SpawnStateValid(m1) THEN m1
      ELSE [m1 EXCEPT !.enemies = Append(@, NewEnemy(t.config)),
                      !.currentBoss = IF t.config.kind = "boss"
                                        THEN Len(m1.enemies) + 1 ELSE @]

CanBeStruckAny(e) == TRUE
\* checkProjectileHit: if (!enemy.isAlive() || !enemy.mesh) continue
CanBeStruck(e) == isAlive(e) /\ ~e.disposed

FirstStruckLast(es, kind) ==
  LET hit == {i \in 1..Len(es) : es[i].kind = kind /\ CanBeStruck(es[i])}
  IN  IF hit = {} THEN 0 ELSE CHOOSE i \in hit : \A j \in hit : i >= j
\* checkProjectileHit for a projectile whose cylinder test passes for the
\* enemies of one kind: the first of them in array order that can be struck,
\* 0 when there is none
FirstStruck(es, kind) ==
  LET hit == {i \in 1..Len(es) : es[i].kind = kind /\ CanBeStruck(es[i])}
  IN  IF hit = {} THEN 0 ELSE CHOOSE i \in hit : \A j \in hit : i <= j

ProjectileDamage(type) == IF type = "fireball" THEN FireballDamage ELSE IceDamage

\* EnemyManager.checkProjectileHit
checkProjectileHit(m, kind, type) ==
  LET i == FirstStruck(m.enemies, kind)
  IN  IF i = 0 THEN m ELSE takeDamage(m, i, ProjectileDamage(type), TRUE)

\* ------------------------------------------ Enemy.js: the separation force

\* Enemy.constructor of src/classes/Enemy.js, on one line of the arena:
\* position in hundredths of a unit
Flocker(position, st) ==
  [position |-> position, state |-> st, currentHP |-> 50, stunDuration |-> 0,
   lastAttackTime |-> 0]

getActiveEnemiesAll(es) == 1..Len(es)
\* EnemyManager.getActiveEnemies: this.enemies.filter(e => e.isAlive()), as
\* the indices kept
getActiveEnemies(es) == {j \in 1..Len(es) : es[j].state # "dead"}

\* what `other` adds to separationForce: away from it, normalized, times
\* SEPARATION_FORCE_MULTIPLIER * deltaTime; dt in hundredths of a second
away(es, i, other, dt) ==
  LET distance == Abs(es[i].position - es[other].position)
  IN  IF other = i THEN 0
      ELSE IF distance < separationRadius /\ distance > 0
        THEN (IF es[i].position > es[other].position THEN 1 ELSE -1)
               * Scale(dt, SEPARATION_FORCE_MULTIPLIER)
        ELSE 0

RECURSIVE separationForce(_, _, _, _)
\* the loop of applySeparation over the active enemies
separationForce(es, i, others, dt) ==
  IF others = {} THEN 0
  ELSE LET other == CHOOSE j \in others : TRUE
       IN  away(es, i, other, dt)
             + separationForce(es, i, others \ {other}, dt)

\* Enemy.applySeparation(deltaTime) on es[i]
applySeparation(es, i, dt) ==
  [es EXCEPT ![i].position =
     @ + separationForce(es, i, getActiveEnemies(es), dt)]

\* ------------------------------------------------------------ SpellManager

\* new Projectile(...): hits counts the enemies checkProjectileHit returned
\* for it; touchedAfterHit: it was hit-tested or moved after such a hit
NewProjectile(type) ==
  [type |-> type, hits |-> 0, touchedAfterHit |-> FALSE, disposed |-> FALSE]

clampIntensityBelow(intensity) == Max(MinIntensity, intensity)
\* Projectile.constructor: intensity = Math.max(0.3, Math.min(2.0, intensity)),
\* in hundredths
clampIntensity(intensity) ==
  Max(MinIntensity, Min(MaxIntensity, intensity))

\* Projectile.constructor with its intensity: damage, knockbackForce (in
\* hundredths) and life (in tenths) as set for the type; radius in
\* thousandths, baseRadius * intensity for a fireball and 0.3 for ice.
\* asked records the intensity the constructor was handed.
SizedProjectile(type, intensity) ==
  LET clamped == clampIntensity(intensity)
  IN  [type |-> type, asked |-> intensity, life |-> ProjectileLife,
       damage |-> ProjectileDamage(type),
       knockbackForce |-> KnockbackForce(type),
       radius |-> IF type = "fireball" THEN baseRadius * clamped
                  ELSE IceRadius]

\* SpellManager.constructor: this.projectiles = []
NoSpells ==
  /\ projectiles = <<>>
  /\ projectileObjects = <<>>
  /\ loopIndex = 0

consumeKeep(ps, i) == ps
\* SpellManager.update, after a hit: this.projectiles.splice(i, 1)
consume(ps, i) == SubSeq(ps, 1, i - 1) \o SubSeq(ps, i + 1, Len(ps))

\* a projectile the loop of SpellManager.update comes to
touch(objs, id) ==
  [objs EXCEPT ![id].touchedAfterHit = @ \/ objs[id].hits > 0]

\* new Projectile(...) with its life, in tenths of a second.  met: what the
\* updates of the projectile have found (an enemy hit, a barrier, the ground,
\* its life run out); callbacks: the calls of its onCollision; zones: the
\* burning zones those calls have pushed
NewFlight(type) ==
  [type |-> type, life |-> ProjectileLife, met |-> {}, disposed |-> FALSE,
   callbacks |-> 0, zones |-> 0]

\* this.onCollision(position, type), that is
\* SpellManager.onProjectileCollision: a fireball pushes one burning zone
onCollision(p) ==
  [p EXCEPT !.callbacks = @ + 1,
            !.zones = IF p.type = "fireball" THEN @ + 1 ELSE @]

\* what one frame holds for a projectile: the enemies around it before it
\* moves, a barrier or the ground where it moves to, or nothing
Fates == {"enemy", "barrier", "ground", "none"}

\* the kind of the first enemy of the array that can be struck, "none" when
\* there is no such enemy
TargetKind(es) ==
  LET hit == {i \in 1..Len(es) : CanBeStruck(es[i])}
  IN  IF hit = {} THEN "none"
      ELSE es[CHOOSE i \in hit : \A j \in hit : i <= j].kind

projectileUpdateLate(p, dt, fate) ==
  LET life == p.life - dt
      p1 == IF fate \in {"barrier", "ground"} THEN onCollision(p) ELSE p
  IN  [p1 EXCEPT !.life = life,
                !.met = @ \cup (IF fate \in {"barrier", "ground"}
                                  THEN {fate} ELSE {})
                          \cup (IF life <= 0 THEN {"life"} ELSE {}),
                !.disposed = fate \in {"barrier", "ground"} \/ life < 0]
\* Projectile.update(deltaTime, barriers) followed, when it returns false,
\* by proj.dispose()
projectileUpdate(p, dt, fate) ==
  LET life == p.life - dt
      p1 == IF fate \in {"barrier", "ground"} THEN onCollision(p) ELSE p
  IN  [p1 EXCEPT !.life = life,
                !.met = @ \cup (IF fate \in {"barrier", "ground"}
                                  THEN {fate} ELSE {})
                          \cup (IF life <= 0 THEN {"life"} ELSE {}),
                !.disposed = fate \in {"barrier", "ground"} \/ life <= 0]

spellStepLeaves(m, objs, live, i, dt, fate) ==
  LET id == live[i]
  IN  IF fate[id] = "enemy" /\ TargetKind(m.enemies) # "none"
        THEN [m |-> checkProjectileHit(m, TargetKind(m.enemies),
                                       objs[id].type),
              objs |-> [objs EXCEPT ![id] = [onCollision(@) EXCEPT
                                               !.met = @ \cup {"hit"}]],
              live |-> live]
        ELSE LET p == projectileUpdate(objs[id], dt, fate[id])
             IN  [m |-> m,
                  objs |-> [objs EXCEPT ![id] = p],
                  live |-> IF p.disposed THEN consume(live, i) ELSE live]
\* the body of the loop of SpellManager.update for index i; m is the manager
\* of the enemies, objs the projectiles, live the array this.projectiles
spellStep(m, objs, live, i, dt, fate) ==
  LET id == live[i]
  IN  IF fate[id] = "enemy" /\ TargetKind(m.enemies) # "none"
        THEN [m |-> checkProjectileHit(m, TargetKind(m.enemies),
                                       objs[id].type),
              objs |-> [objs EXCEPT ![id] = [onCollision(@) EXCEPT
                                               !.met = @ \cup {"hit"},
                                               !.disposed = TRUE]],
              live |-> consume(live, i)]
        ELSE LET p == projectileUpdate(objs[id], dt, fate[id])
             IN  [m |-> m,
                  objs |-> [objs EXCEPT ![id] = p],
                  live |-> IF p.disposed THEN consume(live, i) ELSE live]

RECURSIVE spellLoop(_, _, _, _, _, _)

\* the loop of SpellManager.update from index i down to 1
spellLoop(m, objs, live, i, dt, fate) ==
  IF i = 0 THEN [m |-> m, objs |-> objs, live |-> live]
  ELSE CHOOSE r \in {spellLoop(s.m, s.objs, s.live, i - 1, dt, fate) :
                       s \in {spellStep(m, objs, live, i, dt, fate)}} : TRUE

\* ------------------------------------------------------------- the actions

Assign(m) ==
  /\ state' = m.state
  /\ hordeLevel' = m.hordeLevel
  /\ stateTimer' = m.stateTimer
  /\ lastCountdownInt' = m.lastCountdownInt
  /\ totalEnemiesInWave' = m.totalEnemiesInWave
  /\ enemiesSpawnedCount' = m.enemiesSpawnedCount
  /\ enemiesKilledCount' = m.enemiesKilledCount
  /\ pendingSpawns' = m.pendingSpawns
  /\ currentBoss' = m.currentBoss
  /\ enemies' = m.enemies
  /\ spawnTimeouts' = m.spawnTimeouts
  /\ victoryEntries' = m.victoryEntries
  /\ ticks' = m.ticks

\* The director at the start of the rest that precedes horde level: as the
\* constructor leaves it for level 1, and as updateVictoryState leaves it for
\* a later level, the hordes before it cleared (RestEntered).
RestBefore(level) ==
  /\ state = STATE_REST
  /\ hordeLevel = level
  /\ stateTimer = RestDuration
  /\ lastCountdownInt = IF level = 1 THEN 0 ELSE 1
  /\ totalEnemiesInWave = IF level = 1 THEN 0 ELSE calculateWaveSize(level - 1)
  /\ enemiesSpawnedCount = totalEnemiesInWave
  /\ enemiesKilledCount = totalEnemiesInWave
  /\ pendingSpawns = 0
  /\ currentBoss = 0
  /\ enemies = <<>>
  /\ spawnTimeouts = <<>>
  /\ victoryEntries = IF level = 1 THEN 0 ELSE 1
  /\ ticks = IF level = 1 THEN <<>> ELSE <<3, 2, 1>>

Idle ==
  /\ pc = "idle"
  /\ hitsThisFrame = 0
  /\ staleEffect = FALSE
  /\ frameLog = <<>>
  /\ isPaused = FALSE
  /\ loneEnemy = NewBody("normal")
  /\ NoSpells

\* EnemyManager.constructor
Init == RestBefore(1) /\ Idle

\* The timeout set by executeSpawn fires.
SpawnTimeout ==
  /\ pc = "idle"
  /\ spawnTimeouts # <<>>
  /\ Head(spawnTimeouts).remaining = 0
  /\ Assign(spawnCallback(Manager))
  /\ staleEffect' =
       (\/ staleEffect
        \/ /\ Head(spawnTimeouts).stale # "no"
           /\ Len(enemies') > Len(enemies)
        \/ /\ Head(spawnTimeouts).stale = "superseded"
           /\ pendingSpawns' # pendingSpawns)
  /\ UNCHANGED <<pc, hitsThisFrame, loneEnemy, projectiles,
                 projectileObjects, loopIndex, frameLog, isPaused>>

\* Game.animate calls Game.update, a tenth of a second after the last frame,
\* unless the game is paused: SpellManager.update runs.  A timeout that was
\* due has run before.
GameUpdate ==
  /\ pc = "idle"
  /\ ~isPaused
  /\ \A k \in 1..Len(spawnTimeouts) : spawnTimeouts[k].remaining > 0
  /\ spawnTimeouts' = [k \in 1..Len(spawnTimeouts) |->
                         [spawnTimeouts[k] EXCEPT !.remaining = @ - 1]]
  /\ pc' = "spells"
  /\ hitsThisFrame' = 0
  /\ frameLog' = <<"projectiles">>
  /\ UNCHANGED <<state, hordeLevel, stateTimer, lastCountdownInt,
                 totalEnemiesInWave, enemiesSpawnedCount, enemiesKilledCount,
                 pendingSpawns, currentBoss, enemies, victoryEntries,
                 ticks, staleEffect, loneEnemy, projectiles,
                 projectileObjects, loopIndex, isPaused>>

\* SpellManager.update: a projectile strikes an enemy.
ProjectileHit ==
  /\ pc = "spells"
  /\ hitsThisFrame < MaxHitsPerFrame
  /\ \E kind \in Kinds, type \in CastTypes :
       /\ FirstStruck(enemies, kind) # 0
       /\ Assign(checkProjectileHit(Manager, kind, type))
  /\ hitsThisFrame' = hitsThisFrame + 1
  /\ UNCHANGED <<pc, staleEffect, loneEnemy, projectiles, projectileObjects,
                 loopIndex, frameLog, isPaused>>

Clones(m) ==
  Cardinality({i \in 1..Len(m.enemies) : m.enemies[i].kind = "clone"})
  + Cardinality({k \in 1..Len(m.spawnTimeouts) :
                   m.spawnTimeouts[k].config.kind = "clone"})

\* Game.update goes on to EnemyManager.update(deltaTime); at most maxClones
\* clones are explored.
EnemyManagerUpdateUpTo(maxClones) ==
  /\ pc = "spells"
  /\ \E count \in 3..6 :
       LET m == update(Manager, FrameDelta, count)
       IN  /\ m.hordeLevel <= MaxLevel
           /\ Clones(m) <= maxClones
           /\ Assign(m)
  /\ pc' = "idle"
  /\ frameLog' = frameLog \o <<"director", "entities">>
  /\ UNCHANGED <<hitsThisFrame, staleEffect, loneEnemy, projectiles,
                 projectileObjects, loopIndex, isPaused>>

EnemyManagerUpdate == EnemyManagerUpdateUpTo(MaxClones)

\* Game.resetGame: EnemyManager.clearAllEnemies.
ResetGame ==
  /\ pc = "idle"
  /\ Assign(clearAllEnemiesOf(Manager))
  /\ UNCHANGED <<pc, hitsThisFrame, staleEffect, loneEnemy, projectiles,
                 projectileObjects, loopIndex, frameLog, isPaused>>

Next ==
  \/ SpawnTimeout
  \/ GameUpdate
  \/ ProjectileHit
  \/ EnemyManagerUpdate
  \/ ResetGame

Spec == Init /\ [][Next]_vars


\* The player casts nothing: the enemies are left alone.
EnemyManagerUpdateUnfought == EnemyManagerUpdateUpTo(MaxUnfoughtClones)

NextNoKills ==
  \/ SpawnTimeout
  \/ GameUpdate
  \/ EnemyManagerUpdateUnfought
  \/ ResetGame

\* Spec reaches the rest before every level in the state RestBefore gives
\* (RestEntered), so the runs without kills start from any of them.
InitAtLevel == (\E level \in 1..MaxLevel : RestBefore(level)) /\ Idle

SpecNoKills == InitAtLevel /\ [][NextNoKills]_vars

\* EnemyManager.update(dt) called with any positive dt, up to the start of
\* the first wave: the timed states of the director on their own.
DirectorUpdateAnyDelta ==
  /\ pc = "idle"
  /\ state \in {STATE_REST, STATE_ANNOUNCE, STATE_COUNTDOWN}
  /\ \E dt \in 1..MaxDelta : Assign(update(Manager, dt, 3))
  /\ UNCHANGED <<pc, hitsThisFrame, staleEffect, loneEnemy, projectiles,
                 projectileObjects, loopIndex, frameLog, isPaused>>

NextCountdown == DirectorUpdateAnyDelta

SpecCountdown == Init /\ [][NextCountdown]_vars

\* n enemies built from one config
Repeat(config, n) == [k \in 1..n |-> NewEnemy(config)]

\* The arrays the hordes of a level leave: the boss followed by its clones,
\* or the mini-bosses of an even level followed by normal enemies.
ArraysOf(level) ==
  IF level % 5 = 0
    THEN {Repeat(SpawnConfig(level, 1), 1) \o Repeat(CloneConfig(level), c) :
            c \in 0..(MaxArray - 1)}
    ELSE {Repeat(SpawnConfig(level, 1), j)
            \o Repeat(SpawnConfig(level, level), k) :
            j \in 0..(IF level % 2 = 0 THEN MaxArray ELSE 0),
            k \in 0..MaxArray} \ {<<>>}

\* handleEnemyDeath taken alone: the director in any of its states, with an
\* array of live enemies, and no wave in progress counted yet.
InitDeath ==
  /\ state \in States
  /\ hordeLevel \in 1..MaxLevel
  /\ stateTimer = RestDuration
  /\ lastCountdownInt = 1
  /\ totalEnemiesInWave = calculateWaveSize(hordeLevel)
  /\ enemiesSpawnedCount = totalEnemiesInWave
  /\ enemiesKilledCount = 0
  /\ pendingSpawns = 0
  /\ enemies \in {a \in ArraysOf(hordeLevel) : Len(a) <= MaxArray}
  /\ currentBoss = IF hordeLevel % 5 = 0 THEN 1 ELSE 0
  /\ spawnTimeouts = <<>>
  /\ victoryEntries = 0
  /\ ticks = <<3, 2, 1>>
  /\ pc = "spells"
  /\ hitsThisFrame = 0
  /\ staleEffect = FALSE
  /\ frameLog = <<>>
  /\ isPaused = FALSE
  /\ loneEnemy = NewBody("normal")
  /\ NoSpells

\* Enemy.takeDamage on an enemy a projectile of either type strikes
DeathStrike ==
  /\ \E i \in 1..Len(enemies), type \in ProjectileTypes :
       /\ CanBeStruck(enemies[i])
       /\ Assign(takeDamage(Manager, i, ProjectileDamage(type), TRUE))
  /\ UNCHANGED <<pc, hitsThisFrame, staleEffect, loneEnemy, projectiles,
                 projectileObjects, loopIndex, frameLog, isPaused>>

NextDeath == DeathStrike

SpecDeath == InitDeath /\ [][NextDeath]_vars

\* One enemy followed on its own: its updates, with any dt and the player
\* anywhere, and the damage it survives.
InitPhysics ==
  /\ RestBefore(1)
  /\ pc = "idle" /\ hitsThisFrame = 0 /\ staleEffect = FALSE
  /\ frameLog = <<>>
  /\ isPaused = FALSE
  /\ \E kind \in Kinds : loneEnemy = NewBody(kind)
  /\ NoSpells

BodyUpdate ==
  /\ \E dt \in 0..MaxPhysicsDelta, zone \in Zones :
       loneEnemy' = updateBody(loneEnemy, dt, zone)
  /\ UNCHANGED <<state, hordeLevel, stateTimer, lastCountdownInt,
                 totalEnemiesInWave, enemiesSpawnedCount, enemiesKilledCount,
                 pendingSpawns, currentBoss, enemies, spawnTimeouts, pc,
                 hitsThisFrame, victoryEntries, ticks, staleEffect,
                 projectiles, projectileObjects, loopIndex, frameLog, isPaused>>

BodyDamage ==
  /\ \E type \in ProjectileTypes, sign \in {-1, 0, 1} :
       /\ loneEnemy' = knockBody(loneEnemy, type, sign)
       /\ Abs(loneEnemy'.pushForce) <= MaxPush
  /\ UNCHANGED <<state, hordeLevel, stateTimer, lastCountdownInt,
                 totalEnemiesInWave, enemiesSpawnedCount, enemiesKilledCount,
                 pendingSpawns, currentBoss, enemies, spawnTimeouts, pc,
                 hitsThisFrame, victoryEntries, ticks, staleEffect,
                 projectiles, projectileObjects, loopIndex, frameLog, isPaused>>

NextPhysics == BodyUpdate \/ BodyDamage

SpecPhysics == InitPhysics /\ [][NextPhysics]_vars

\* a frame in which time has passed: Enemy.update(dt) with dt > 0
BodyUpdatePositive ==
  /\ \E dt \in 1..MaxPhysicsDelta, zone \in Zones :
       loneEnemy' = updateBody(loneEnemy, dt, zone)
  /\ UNCHANGED <<state, hordeLevel, stateTimer, lastCountdownInt,
                 totalEnemiesInWave, enemiesSpawnedCount, enemiesKilledCount,
                 pendingSpawns, currentBoss, enemies, spawnTimeouts, pc,
                 hitsThisFrame, victoryEntries, ticks, staleEffect,
                 projectiles, projectileObjects, loopIndex, frameLog, isPaused>>

\* The lone enemy in a running game: Game.animate asks for the next frame at
\* the end of each one, so frames with dt > 0 keep coming.
SpecStun == SpecPhysics /\ WF_vars(BodyUpdatePositive)

\* SpellManager taken with the enemies of a wave at hand: spells are cast
\* between frames, and each frame runs SpellManager.update.
directorVars == <<state, hordeLevel, stateTimer, lastCountdownInt,
                  totalEnemiesInWave, enemiesSpawnedCount, enemiesKilledCount,
                  pendingSpawns, currentBoss, enemies, spawnTimeouts,
                  victoryEntries, ticks>>

InitProjectiles ==
  /\ state = STATE_WAVE
  /\ hordeLevel \in 1..MaxLevel
  /\ stateTimer = 0
  /\ lastCountdownInt = 1
  /\ totalEnemiesInWave = calculateWaveSize(hordeLevel)
  /\ enemiesSpawnedCount = totalEnemiesInWave
  /\ enemiesKilledCount = 0
  /\ pendingSpawns = 0
  /\ enemies \in {a \in ArraysOf(hordeLevel) : Len(a) <= MaxArray}
  /\ currentBoss = IF hordeLevel % 5 = 0 THEN 1 ELSE 0
  /\ spawnTimeouts = <<>>
  /\ victoryEntries = 0
  /\ ticks = <<3, 2, 1>>
  /\ Idle

\* SpellManager.castSpell / createProjectile
CastSpell ==
  /\ pc = "idle"
  /\ Len(projectileObjects) < MaxCast
  /\ \E type \in ProjectileTypes :
       projectileObjects' = Append(projectileObjects, NewProjectile(type))
  /\ projectiles' = Append(projectiles, Len(projectileObjects) + 1)
  /\ UNCHANGED <<directorVars, pc, hitsThisFrame, staleEffect, loneEnemy,
                 loopIndex, frameLog, isPaused>>

\* SpellManager.update begins its loop, from the last projectile
BeginSpellUpdate ==
  /\ pc = "idle"
  /\ pc' = "loop"
  /\ loopIndex' = Len(projectiles)
  /\ UNCHANGED <<directorVars, hitsThisFrame, staleEffect, loneEnemy,
                 projectiles, projectileObjects, frameLog, isPaused>>

\* the loop of SpellManager.update: checkProjectileHit returns an enemy
LoopHit ==
  /\ pc = "loop" /\ loopIndex > 0
  /\ LET id == projectiles[loopIndex]
         objs == touch(projectileObjects, id)
     IN  /\ \E kind \in Kinds :
              /\ FirstStruck(enemies, kind) # 0
              /\ Assign(checkProjectileHit(Manager, kind, objs[id].type))
         /\ projectileObjects' = [objs EXCEPT ![id].hits = @ + 1,
                                              ![id].disposed = TRUE]
         /\ projectiles' = consume(projectiles, loopIndex)
  /\ loopIndex' = loopIndex - 1
  /\ UNCHANGED <<pc, hitsThisFrame, staleEffect, loneEnemy,
                 frameLog, isPaused>>

\* the loop of SpellManager.update: checkProjectileHit returns null, and
\* Projectile.update moves the projectile; it returns false at a barrier, on
\* the ground or at the end of the projectile's life
LoopMiss ==
  /\ pc = "loop" /\ loopIndex > 0
  /\ LET id == projectiles[loopIndex]
         objs == touch(projectileObjects, id)
     IN  \E alive \in BOOLEAN :
           IF alive
             THEN /\ projectileObjects' = objs
                  /\ projectiles' = projectiles
             ELSE /\ projectileObjects' = [objs EXCEPT ![id].disposed = TRUE]
                  /\ projectiles' = SubSeq(projectiles, 1, loopIndex - 1)
                                      \o SubSeq(projectiles, loopIndex + 1,
                                                Len(projectiles))
  /\ loopIndex' = loopIndex - 1
  /\ UNCHANGED <<directorVars, pc, hitsThisFrame, staleEffect, loneEnemy,
                 frameLog, isPaused>>

\* the loop of SpellManager.update is over
EndSpellUpdate ==
  /\ pc = "loop" /\ loopIndex = 0
  /\ pc' = "idle"
  /\ UNCHANGED <<directorVars, hitsThisFrame, staleEffect, loneEnemy,
                 projectiles, projectileObjects, loopIndex, frameLog, isPaused>>

NextProjectiles ==
  \/ CastSpell
  \/ BeginSpellUpdate
  \/ LoopHit
  \/ LoopMiss
  \/ EndSpellUpdate

SpecProjectiles == InitProjectiles /\ [][NextProjectiles]_vars

\* The projectiles in flight over a handful of enemies of the first wave:
\* spells are cast between frames, and each frame runs SpellManager.update
\* whole.
InitFlight ==
  /\ state = STATE_WAVE
  /\ hordeLevel = 1
  /\ stateTimer = 0
  /\ lastCountdownInt = 1
  /\ totalEnemiesInWave = calculateWaveSize(hordeLevel)
  /\ enemiesSpawnedCount = totalEnemiesInWave
  /\ enemiesKilledCount = 0
  /\ pendingSpawns = 0
  /\ enemies \in {a \in ArraysOf(hordeLevel) : Len(a) <= 1}
  /\ currentBoss = 0
  /\ spawnTimeouts = <<>>
  /\ victoryEntries = 0
  /\ ticks = <<3, 2, 1>>
  /\ Idle

\* SpellManager.createProjectile
CastFlight ==
  /\ Len(projectileObjects) < MaxFlight
  /\ \E type \in ProjectileTypes :
       projectileObjects' = Append(projectileObjects, NewFlight(type))
  /\ projectiles' = Append(projectiles, Len(projectileObjects) + 1)
  /\ UNCHANGED <<directorVars, pc, hitsThisFrame, staleEffect, loneEnemy,
                 loopIndex, frameLog, isPaused>>

\* SpellManager.update(deltaTime)
SpellUpdate(dt) ==
  /\ \E fate \in [1..Len(projectileObjects) -> Fates] :
       \E r \in {spellLoop(Manager, projectileObjects, projectiles,
                           Len(projectiles), dt, fate)} :
         /\ Assign(r.m)
         /\ projectileObjects' = r.objs
         /\ projectiles' = r.live
  /\ UNCHANGED <<pc, hitsThisFrame, staleEffect, loneEnemy, loopIndex,
                 frameLog, isPaused>>

\* Game.animate: deltaTime = Math.min(elapsed / 1000, 0.1)
SpellFrame == \E dt \in 0..FrameDelta : SpellUpdate(dt)

NextFlight == CastFlight \/ SpellFrame

\* Game.animate asks for the next frame at the end of each one, so frames in
\* which time has passed keep coming.
SpecFlight ==
  InitFlight /\ [][NextFlight]_vars /\ WF_vars(SpellUpdate(FrameDelta))

\* A boss wave with the positions of the summons: the boss stands anywhere,
\* the arena's edge included, and each clone is requested at an offset of it.
BossPositions ==
  {[x |-> 45, z |-> -45], [x |-> 0, z |-> 0], [x |-> -40, z |-> 42]}

SummonOffsets == {[x |-> -6, z |-> 6], [x |-> 9, z |-> 0]}

\* the wave of horde 5 with its boss in the field, two fireballs from death
InitSummon ==
  /\ state = STATE_WAVE
  /\ hordeLevel = 5
  /\ stateTimer = 0
  /\ lastCountdownInt = 1
  /\ totalEnemiesInWave = calculateWaveSize(hordeLevel)
  /\ enemiesSpawnedCount = totalEnemiesInWave
  /\ enemiesKilledCount = 0
  /\ pendingSpawns = 0
  /\ enemies = <<[NewEnemy(SpawnConfig(hordeLevel, 1))
                    EXCEPT !.hp = 2 * FireballDamage]>>
  /\ currentBoss = 1
  /\ spawnTimeouts = <<>>
  /\ victoryEntries = 0
  /\ ticks = <<3, 2, 1>>
  /\ Idle

\* Game.update goes on to EnemyManager.update(deltaTime), the boss's
\* position and the offsets bossSummon draws given; the wave is followed to
\* the end of its victory
SummonUpdate ==
  /\ pc = "spells"
  /\ \E count \in 3..6, bossPos \in BossPositions :
       \E m0 \in {update(Manager, FrameDelta, count)} :
         \E offsets \in [1..BatchSize(m0, Len(spawnTimeouts))
                           -> SummonOffsets] :
           \E m \in {placeBatch(m0, Len(spawnTimeouts), bossPos, offsets)} :
             /\ m.hordeLevel = hordeLevel
             /\ Clones(m) <= MaxSummoned
             /\ Assign(m)
  /\ pc' = "idle"
  /\ frameLog' = frameLog \o <<"director", "entities">>
  /\ UNCHANGED <<hitsThisFrame, staleEffect, loneEnemy, projectiles,
                 projectileObjects, loopIndex, isPaused>>

NextSummon ==
  \/ SpawnTimeout
  \/ GameUpdate
  \/ ProjectileHit
  \/ SummonUpdate

SpecSummon == InitSummon /\ [][NextSummon]_vars

\* Enemies of src/classes/Enemy.js on one line, some of them dead and not
\* yet spliced out: chasing ones apply their separation, in any order.
FlockPositions == {0, 100, 250}

SeparationDeltas == {0, 50}

InitSeparation ==
  /\ state = STATE_REST
  /\ hordeLevel = 1
  /\ stateTimer = RestDuration
  /\ lastCountdownInt = 0
  /\ totalEnemiesInWave = 0
  /\ enemiesSpawnedCount = 0
  /\ enemiesKilledCount = 0
  /\ pendingSpawns = 0
  /\ currentBoss = 0
  /\ spawnTimeouts = <<>>
  /\ victoryEntries = 0
  /\ ticks = <<>>
  /\ Idle
  /\ \E n \in 2..MaxFlock :
       enemies \in [1..n -> {Flocker(x, st) : x \in FlockPositions,
                                             st \in {"chasing", "dead"}}]

\* moveTowardPlayer calls this.applySeparation(deltaTime)
Separate ==
  /\ \E i \in 1..Len(enemies), dt \in SeparationDeltas :
       /\ enemies[i].state = "chasing"
       /\ enemies' = applySeparation(enemies, i, dt)
  /\ UNCHANGED <<state, hordeLevel, stateTimer, lastCountdownInt,
                 totalEnemiesInWave, enemiesSpawnedCount, enemiesKilledCount,
                 pendingSpawns, currentBoss, spawnTimeouts, victoryEntries,
                 ticks, pc, hitsThisFrame, staleEffect, loneEnemy, projectiles,
                 projectileObjects, loopIndex, frameLog, isPaused>>

NextSeparation == Separate

SpecSeparation == InitSeparation /\ [][NextSeparation]_vars

\* One enemy with its life and its timers: the damage it takes from
\* projectiles and, a clone, from the boss cascade; its updates frame by
\* frame; its timers; the reset that disposes it.
EnemyConfigs ==
  {SpawnConfig(1, 1), SpawnConfig(2, 1), SpawnConfig(5, 1), CloneConfig(5)}

\* the boss of horde 5 after twenty-four fireballs, at rest again
WoundedBoss == [FullBody(SpawnConfig(5, 1)) EXCEPT !.hp = 2 * FireballDamage]

InitEnemy ==
  /\ RestBefore(1)
  /\ pc = "idle" /\ hitsThisFrame = 0 /\ staleEffect = FALSE
  /\ frameLog = <<>>
  /\ isPaused = FALSE
  /\ \/ \E config \in EnemyConfigs : loneEnemy = FullBody(config)
     \/ loneEnemy = WoundedBoss
  /\ NoSpells

othersUnchanged ==
  UNCHANGED <<directorVars, pc, hitsThisFrame, staleEffect, projectiles,
              projectileObjects, loopIndex, frameLog, isPaused>>

\* checkProjectileHit or the boss cascade call takeDamage: on an enemy that
\* is alive and has its mesh
EnemyDamaged ==
  /\ ~loneEnemy.isDead /\ ~loneEnemy.disposed
  /\ loneEnemy.blows < MaxBlows
  /\ \/ \E type \in CastTypes, sign \in {-1, 1} :
          loneEnemy' = fullTakeDamage(loneEnemy, ProjectileDamage(type),
                                      type, sign)
     \/ /\ loneEnemy.kind = "clone"
        /\ loneEnemy' = fullTakeDamage(loneEnemy, CascadeDamage, "ice", 0)
  /\ Len(loneEnemy'.timeouts) <= MaxTimers
  /\ othersUnchanged

\* EnemyManager.update calls enemy.update(dt), a frame of 0.1 s
EnemyUpdated ==
  /\ \E zone \in Zones, due \in BOOLEAN :
       loneEnemy' = fullUpdate(loneEnemy, FrameDelta * 10, zone, due)
  /\ Len(loneEnemy'.timeouts) <= MaxTimers
  /\ othersUnchanged

\* a timer set by takeDamage or attackPlayer runs
EnemyTimerRuns ==
  /\ \E k \in 1..Len(loneEnemy.timeouts) :
       loneEnemy' = timerRuns(loneEnemy, k)
  /\ othersUnchanged

\* clearAllEnemies: e.dispose() on an enemy of the array
EnemyCleared ==
  /\ ~loneEnemy.isDead /\ ~loneEnemy.disposed
  /\ loneEnemy' = bodyDispose(loneEnemy)
  /\ othersUnchanged

NextEnemy ==
  \/ EnemyDamaged
  \/ EnemyUpdated
  \/ EnemyTimerRuns
  \/ EnemyCleared

SpecEnemy == InitEnemy /\ [][NextEnemy]_vars

\* The pointer lock is lost: Game.isPaused = true, the frames stop.
Pause ==
  /\ pc = "idle"
  /\ ~isPaused
  /\ isPaused' = TRUE
  /\ UNCHANGED <<directorVars, pc, hitsThisFrame, staleEffect, loneEnemy,
                 projectiles, projectileObjects, loopIndex, frameLog>>

\* The pointer lock is back: Game.isPaused = false, Game.animate runs again.
Resume ==
  /\ pc = "idle"
  /\ isPaused
  /\ isPaused' = FALSE
  /\ UNCHANGED <<directorVars, pc, hitsThisFrame, staleEffect, loneEnemy,
                 projectiles, projectileObjects, loopIndex, frameLog>>

\* A tenth of a second passes while the game is paused: no frame runs, the
\* timeouts of executeSpawn come closer.
PausedTick ==
  /\ pc = "idle"
  /\ isPaused
  /\ spawnTimeouts # <<>>
  /\ \A k \in 1..Len(spawnTimeouts) : spawnTimeouts[k].remaining > 0
  /\ spawnTimeouts' = [k \in 1..Len(spawnTimeouts) |->
                         [spawnTimeouts[k] EXCEPT !.remaining = @ - 1]]
  /\ UNCHANGED <<state, hordeLevel, stateTimer, lastCountdownInt,
                 totalEnemiesInWave, enemiesSpawnedCount, enemiesKilledCount,
                 pendingSpawns, currentBoss, enemies, victoryEntries, ticks,
                 pc, hitsThisFrame, staleEffect, loneEnemy, projectiles,
                 projectileObjects, loopIndex, frameLog, isPaused>>

\* The game with its pauses, the enemies left alone.
NextPause ==
  \/ SpawnTimeout
  \/ GameUpdate
  \/ EnemyManagerUpdateUnfought
  \/ Pause
  \/ Resume
  \/ PausedTick

SpecPause == Init /\ [][NextPause]_vars

\* Under Spec, the rest of a level above 1 begins in the state RestBefore.
RestEntered ==
  (state = STATE_REST /\ stateTimer = RestDuration /\ hordeLevel > 1)
    => RestBefore(hordeLevel)

\* One enemy followed with the heights of its vectors: spawned at any height,
\* struck from any direction, the player at any height.
SpawnHeights == {0, 2}
VerticalParts == {-1, 0, 1}

InitStanding ==
  /\ RestBefore(1)
  /\ pc = "idle" /\ hitsThisFrame = 0 /\ staleEffect = FALSE
  /\ frameLog = <<>>
  /\ isPaused = FALSE
  /\ \E kind \in Kinds, height \in SpawnHeights :
       loneEnemy = NewStanding(kind, height)
  /\ NoSpells

StandingUpdate ==
  /\ \E dt \in 0..MaxPhysicsDelta, zone \in Zones,
        side \in {-1, 1}, height \in SpawnHeights :
       loneEnemy' = standingUpdate(loneEnemy, dt, zone,
                                   [x |-> side, y |-> height])
  /\ UNCHANGED <<directorVars, pc, hitsThisFrame, staleEffect,
                 projectiles, projectileObjects, loopIndex, frameLog, isPaused>>

StandingDamage ==
  /\ \E type \in ProjectileTypes, side \in {-1, 0, 1}, up \in VerticalParts :
       /\ loneEnemy' = standingTakeDamage(loneEnemy, type,
                                          [x |-> side, y |-> up])
       /\ Abs(loneEnemy'.pushForce.x) <= MaxPush
  /\ UNCHANGED <<directorVars, pc, hitsThisFrame, staleEffect,
                 projectiles, projectileObjects, loopIndex, frameLog, isPaused>>

NextStanding == StandingUpdate \/ StandingDamage

SpecStanding == InitStanding /\ [][NextStanding]_vars

\* One enemy with the clock of its attacks: time passes between the frames,
\* the enemy is updated, struck, or killed.
Epoch == 20
Elapses == {0, 1, 7, 8}

InitAttack ==
  /\ RestBefore(1)
  /\ pc = "idle" /\ hitsThisFrame = 0 /\ staleEffect = FALSE
  /\ frameLog = <<>>
  /\ isPaused = FALSE
  /\ \E kind \in Kinds : loneEnemy = NewAttacker(kind, Epoch)
  /\ NoSpells

AttackerUpdate ==
  /\ \E elapsed \in Elapses, zone \in Zones, lag \in {0, 1} :
       LET now == loneEnemy.now + elapsed
       IN  /\ now + lag <= Epoch + MaxClock
           /\ loneEnemy' = [attackerUpdate(loneEnemy, FrameDelta * 10, zone,
                                           now, lag) EXCEPT !.now = now + lag]
           /\ loneEnemy'.attacks <= MaxAttacks
  /\ UNCHANGED <<directorVars, pc, hitsThisFrame, staleEffect,
                 projectiles, projectileObjects, loopIndex, frameLog, isPaused>>

AttackerStruck ==
  /\ ~loneEnemy.isDead
  /\ \E type \in ProjectileTypes, dies \in BOOLEAN :
       /\ loneEnemy' = [knockBody(loneEnemy, type, 1) EXCEPT !.isDead = dies]
       /\ Abs(loneEnemy'.pushForce) <= FireballKnockback
  /\ UNCHANGED <<directorVars, pc, hitsThisFrame, staleEffect,
                 projectiles, projectileObjects, loopIndex, frameLog, isPaused>>

NextAttack == AttackerUpdate \/ AttackerStruck

SpecAttack == InitAttack /\ [][NextAttack]_vars

\* Projectiles created with any intensity, one at a time.
Intensities == (0 - FarIntensity)..FarIntensity

InitIntensity ==
  /\ RestBefore(1)
  /\ Idle
  /\ isPaused = FALSE

CreateProjectile ==
  /\ \E type \in ProjectileTypes, intensity \in Intensities :
       projectileObjects' = <<SizedProjectile(type, intensity)>>
  /\ projectiles' = <<1>>
  /\ UNCHANGED <<directorVars, pc, hitsThisFrame, staleEffect, loneEnemy,
                 loopIndex, frameLog, isPaused>>

NextIntensity == CreateProjectile

SpecIntensity == InitIntensity /\ [][NextIntensity]_vars

\* A wave followed to its victory, without resets: from its entry at a level
\* without a boss, or from a boss wave with the boss two fireballs from death.
WaveLevels == {1, 6}

WaveEntered(level) ==
  /\ state = STATE_WAVE
  /\ hordeLevel = level
  /\ stateTimer = 0
  /\ lastCountdownInt = 1
  /\ totalEnemiesInWave = calculateWaveSize(level)
  /\ enemiesSpawnedCount = 0
  /\ enemiesKilledCount = 0
  /\ pendingSpawns = 0
  /\ enemies = <<>>
  /\ currentBoss = 0
  /\ spawnTimeouts = <<>>
  /\ victoryEntries = 0
  /\ ticks = <<3, 2, 1>>

InitWave ==
  \/ InitSummon
  \/ (\E level \in WaveLevels : WaveEntered(level)) /\ Idle

\* Game.update goes on to EnemyManager.update(deltaTime); the wave is
\* followed to the end of its victory
WaveUpdate ==
  /\ pc = "spells"
  /\ \E count \in 3..6 :
       \E m \in {update(Manager, FrameDelta, count)} :
         /\ m.hordeLevel = hordeLevel
         /\ Clones(m) <= MaxClones
         /\ Assign(m)
  /\ pc' = "idle"
  /\ frameLog' = frameLog \o <<"director", "entities">>
  /\ UNCHANGED <<hitsThisFrame, staleEffect, loneEnemy, projectiles,
                 projectileObjects, loopIndex, isPaused>>

NextWave ==
  \/ SpawnTimeout
  \/ GameUpdate
  \/ ProjectileHit
  \/ WaveUpdate

\* Game.animate asks for the next frame at the end of each one, Game.update
\* always goes on from the spells to the director, and the browser runs a
\* timeout that is due.
SpecWave ==
  /\ InitWave /\ [][NextWave]_vars
  /\ WF_vars(GameUpdate) /\ WF_vars(WaveUpdate) /\ WF_vars(SpawnTimeout)

\* One enemy that was never damaged, the player kept at one distance: it is
\* found wandering, chasing or attacking, and is updated MaxUpdates times.
\* zone is the distance kept; trail lists the state it was found in and its
\* state after each update.
InitHold ==
  /\ RestBefore(1)
  /\ pc = "idle" /\ hitsThisFrame = 0 /\ staleEffect = FALSE
  /\ frameLog = <<>>
  /\ isPaused = FALSE
  /\ \E kind \in Kinds, zone \in Zones,
        found \in {"wandering", "chasing", "attacking"} :
       loneEnemy = [kind |-> kind, state |-> found, pushForce |-> 0,
                    zone |-> zone, trail |-> <<found>>]
  /\ NoSpells

HoldUpdate ==
  /\ Len(loneEnemy.trail) <= MaxUpdates
  /\ \E dt \in {0, FrameDelta * 10} :
       \E b \in {updateBody(loneEnemy, dt, loneEnemy.zone)} :
         loneEnemy' = [b EXCEPT !.trail = Append(@, b.state)]
  /\ UNCHANGED <<directorVars, pc, hitsThisFrame, staleEffect,
                 projectiles, projectileObjects, loopIndex, frameLog, isPaused>>

NextHold == HoldUpdate

SpecHold == InitHold /\ [][NextHold]_vars

\* ---------------------------------------------------------------- claims

Indices == 1..Len(enemies)

\* C1: after any takeDamage calls an enemy's hp satisfies 0 <= hp <= maxHp
\* (an enemy hit for more than its hp ends at hp 0).
HpWithinBounds ==
  \A i \in Indices : 0 <= enemies[i].hp /\ enemies[i].hp <= enemies[i].maxHp

\* C2: every enemy dies at most once, and handleEnemyDeath is called exactly
\* once for an enemy whose hp reached 0 and never for another.
DiesAndNotifiesOnce ==
  \A i \in Indices :
    LET e == enemies[i]
    IN  /\ e.dieCalls <= 1
        /\ e.deathNotices = e.dieCalls
        /\ (e.hp <= 0) = (e.dieCalls = 1)
        /\ e.isDead = (e.dieCalls = 1)

\* in one frame a clone was killed by a projectile and the boss by another,
\* which killed a further clone in the cascade: each of the three died once
DiedOnceInCascade ==
  \E i, j, k \in Indices :
    /\ enemies[i].kind = "boss" /\ enemies[i].dieCalls = 1
    /\ enemies[i].deathNotices = 1
    /\ enemies[j].kind = "clone" /\ enemies[j].dieCalls = 1
    /\ enemies[j].knocked /\ enemies[j].deathNotices = 1
    /\ enemies[k].kind = "clone" /\ enemies[k].dieCalls = 1
    /\ ~enemies[k].knocked /\ enemies[k].deathNotices = 1

\* C3: enterVictoryState is called at most once per wave, only with
\* enemiesKilledCount >= totalEnemiesInWave, and it has been called by the end
\* of the first director update that finds the wave complete.
VictoryOncePerWave ==
  /\ victoryEntries <= 1
  /\ victoryEntries = 1 => enemiesKilledCount >= totalEnemiesInWave
  /\ state = STATE_VICTORY => victoryEntries = 1
  /\ state = STATE_WAVE => victoryEntries = 0
  /\ (state = STATE_WAVE /\ pc = "idle") =>
        enemiesKilledCount < totalEnemiesInWave

\* victory entered in a frame in which two kills completed the wave
VictoryAfterTwoKillsInAFrame ==
  /\ state = STATE_VICTORY /\ stateTimer = VictoryDuration
  /\ hordeLevel = 1 /\ hitsThisFrame = 2 /\ victoryEntries = 1
  /\ enemiesKilledCount = totalEnemiesInWave

\* C4: the step in which the boss dies kills every clone that is alive in the
\* collection, without knockback, and leaves the boss reference null.
BossDeathCascade ==
  [][\A i \in Indices :
       (/\ Len(enemies') = Len(enemies)
        /\ enemies[i].kind = "boss"
        /\ ~enemies[i].isDead /\ enemies'[i].isDead)
       => /\ currentBoss' = 0
          /\ \A j \in Indices :
               (enemies[j].kind = "clone" /\ ~enemies[j].isDead)
               => /\ enemies'[j].isDead
                  /\ enemies'[j].hp <= 0
                  /\ enemies'[j].deathNotices = 1
                  /\ enemies'[j].knocked = enemies[j].knocked]_vars

\* a dead boss next to a clone that died without ever being knocked back
CloneKilledByCascade ==
  /\ currentBoss = 0
  /\ \E i, j \in Indices :
       /\ enemies[i].kind = "boss" /\ enemies[i].isDead
       /\ enemies[j].kind = "clone" /\ enemies[j].isDead
       /\ ~enemies[j].knocked

\* C5: live enemies plus pending spawns never exceed maxActiveEnemies, also
\* while a boss summons clones that are not killed.
PopulationWithinCap ==
  Len(enemies) + pendingSpawns <= maxActiveEnemies

\* C6: enemiesSpawnedCount <= totalEnemiesInWave; a spawn is issued only
\* while the count is below the total, and entering the wave sets the count
\* to 0 together with the new total.
SpawnedWithinTotal ==
  /\ [](enemiesSpawnedCount <= totalEnemiesInWave)
  /\ [][/\ enemiesSpawnedCount' > enemiesSpawnedCount
           => /\ state = STATE_WAVE
              /\ enemiesSpawnedCount < totalEnemiesInWave
              /\ enemiesSpawnedCount' = enemiesSpawnedCount + 1
        /\ (state # STATE_WAVE /\ state' = STATE_WAVE)
           => /\ enemiesSpawnedCount' = 0
              /\ totalEnemiesInWave' > 0]_vars

\* every enemy of a horde larger than one has been requested
AllSpawned ==
  /\ state = STATE_WAVE
  /\ totalEnemiesInWave > 1
  /\ enemiesSpawnedCount = totalEnemiesInWave

\* C7: enemiesKilledCount <= totalEnemiesInWave and pendingSpawns >= 0.
CountersInRange ==
  /\ enemiesKilledCount <= totalEnemiesInWave
  /\ pendingSpawns >= 0

\* a timeout is about to run with pendingSpawns at 0, after a boss horde in
\* which the boss and a clone died and only the boss was counted
TimeoutDueAtZeroPending ==
  /\ pendingSpawns = 0
  /\ spawnTimeouts # <<>> /\ Head(spawnTimeouts).remaining = 0
  /\ enemiesKilledCount = totalEnemiesInWave
  /\ hordeLevel = 5
  /\ \E j \in Indices : enemies[j].kind = "clone" /\ enemies[j].isDead

\* the director as the constructor leaves it
Constructed ==
  /\ state = STATE_REST
  /\ stateTimer = RestDuration
  /\ hordeLevel = 1
  /\ totalEnemiesInWave = 0
  /\ enemiesSpawnedCount = 0
  /\ enemiesKilledCount = 0
  /\ pendingSpawns = 0
  /\ currentBoss = 0
  /\ enemies = <<>>

\* C8: clearAllEnemies, in any reachable state, yields the state right after
\* construction, wave counters included.
ResetRestoresConstructed ==
  [][ResetGame => Constructed']_vars

\* C9: a timeout of a wave that was left, by victory or by a reset, adds no
\* enemy when it runs, and takes nothing from the pendingSpawns of a later
\* wave.
NoStaleSpawnEffect == ~staleEffect

\* two clone timeouts of a batch of at least three are due after the wave
\* was left: the first of the batch has run and was discarded
StaleTimeoutDiscarded ==
  /\ ~staleEffect
  /\ Len(spawnTimeouts) = 2
  /\ \A k \in 1..2 : /\ spawnTimeouts[k].stale = "left"
                     /\ spawnTimeouts[k].remaining = 0
                     /\ spawnTimeouts[k].config.kind = "clone"
  /\ \A j \in Indices : enemies[j].isDead

\* C10: in the wave of level n, totalEnemiesInWave is 1 when n is a multiple
\* of 5 and 5 + 2n otherwise: 1 at level 5, 13 at level 4.
WaveSizeRule ==
  state = STATE_WAVE =>
    /\ hordeLevel % 5 = 0 => totalEnemiesInWave = 1
    /\ hordeLevel % 5 # 0 => totalEnemiesInWave = 5 + 2 * hordeLevel
    /\ hordeLevel = 5 => totalEnemiesInWave = 1
    /\ hordeLevel = 4 => totalEnemiesInWave = 13

\* the wave of the boss level has been entered
BossWaveEntered ==
  /\ state = STATE_WAVE /\ hordeLevel = 5 /\ totalEnemiesInWave = 1
  /\ enemiesSpawnedCount = 0

\* C11: the i-th spawn (from 1) of the wave of a level is a boss of hp
\* 400 + 50*level when the level is a multiple of 5; else, on an even level,
\* a mini-boss of hp 120 + 15*level for i <= level \div 2 and a normal enemy
\* of hp 20 + 2*level after that; on an odd level a normal enemy of hp
\* 20 + 2*level.  The enemy that materialises has that kind and hp.
ArchetypeRule ==
  /\ [](\A j \in Indices :
          LET e == enemies[j]
          IN  /\ e.kind = "boss" =>
                   hordeLevel % 5 = 0 /\ e.maxHp = 400 + 50 * hordeLevel
              /\ e.kind = "miniBoss" =>
                   /\ hordeLevel % 5 # 0 /\ hordeLevel % 2 = 0
                   /\ e.maxHp = 120 + 15 * hordeLevel
              /\ e.kind = "normal" =>
                   hordeLevel % 5 # 0 /\ e.maxHp = 20 + 2 * hordeLevel)
  /\ [][enemiesSpawnedCount' = enemiesSpawnedCount + 1 =>
          LET i == enemiesSpawnedCount'
              level == hordeLevel
              c == spawnTimeouts'[Len(spawnTimeouts')].config
          IN  /\ Len(spawnTimeouts') = Len(spawnTimeouts) + 1
              /\ level % 5 = 0 => c.kind = "boss" /\ c.hp = 400 + 50 * level
              /\ (level % 5 # 0 /\ level % 2 = 0 /\ i <= level \div 2)
                   => c.kind = "miniBoss" /\ c.hp = 120 + 15 * level
              /\ (level % 5 # 0 /\ level % 2 = 0 /\ i > level \div 2)
                   => c.kind = "normal" /\ c.hp = 20 + 2 * level
              /\ (level % 5 # 0 /\ level % 2 = 1)
                   => c.kind = "normal" /\ c.hp = 20 + 2 * level]_vars

\* at level 4 the third spawn has been requested: a mini-boss of hp 180
\* stands next to a normal enemy of hp 28
MiniBossesThenNormals ==
  /\ hordeLevel = 4 /\ enemiesSpawnedCount >= 3
  /\ \E i, j \in Indices :
       /\ enemies[i].kind = "miniBoss" /\ enemies[i].maxHp = 180
       /\ enemies[j].kind = "normal" /\ enemies[j].maxHp = 28

\* C12: the state starts at REST and changes only along REST -> ANNOUNCE ->
\* COUNTDOWN -> WAVE -> VICTORY -> REST, or to REST by clearAllEnemies; the
\* timed states are left only by the update that brings stateTimer to 0 or
\* below, and WAVE only with enemiesKilledCount >= totalEnemiesInWave.
PhaseOrder ==
  /\ state = STATE_REST
  /\ [][state' # state =>
          LET expired == stateTimer - FrameDelta <= 0
          IN  \/ ResetGame /\ state' = STATE_REST
              \/ state = STATE_REST /\ state' = STATE_ANNOUNCE /\ expired
              \/ state = STATE_ANNOUNCE /\ state' = STATE_COUNTDOWN /\ expired
              \/ state = STATE_COUNTDOWN /\ state' = STATE_WAVE /\ expired
              \/ /\ state = STATE_WAVE /\ state' = STATE_VICTORY
                 /\ enemiesKilledCount >= totalEnemiesInWave
              \/ state = STATE_VICTORY /\ state' = STATE_REST /\ expired]_vars

\* the cycle of horde 1 has been gone through: the rest before horde 2 begins
FullCycleCompleted ==
  /\ state = STATE_REST /\ hordeLevel = 2 /\ stateTimer = RestDuration
  /\ victoryEntries = 1

\* C13: hordeLevel starts at 1; the expiry of the victory timer adds exactly
\* 1 to it and nothing else raises it; only clearAllEnemies lowers it, to 1.
LevelSteps ==
  /\ hordeLevel = 1
  /\ [][/\ (state = STATE_VICTORY /\ state' = STATE_REST /\ ~ResetGame)
             => hordeLevel' = hordeLevel + 1
        /\ hordeLevel' > hordeLevel
             => /\ state = STATE_VICTORY /\ state' = STATE_REST
                /\ hordeLevel' = hordeLevel + 1
        /\ hordeLevel' < hordeLevel => ResetGame /\ hordeLevel' = 1
        /\ ResetGame => hordeLevel' = 1]_vars

\* level 1 again, with the total of the wave of level 2 still in place: the
\* level was raised by a victory and then reset
LevelRaisedThenReset ==
  /\ hordeLevel = 1 /\ state = STATE_REST
  /\ totalEnemiesInWave = 5 + 2 * 2

\* C14 as claimed: a countdown stepped with frames of at most 0.1 s has
\* emitted the ticks 4, 3, 2, 1, in that order, when the wave begins.
CountdownTicksFrom4 ==
  state = STATE_WAVE => ticks = <<4, 3, 2, 1>>

\* C14, amended: a countdown stepped with frames of at most 0.1 s emits the
\* ticks 3, 2, 1, in that order, and has emitted all three when the wave
\* begins; 4 is the value lastCountdownInt starts from and is never shown.
CountdownTicksFrom3 ==
  /\ state = STATE_WAVE => ticks = <<3, 2, 1>>
  /\ state = STATE_COUNTDOWN =>
       /\ ticks \in {<<>>, <<3>>, <<3, 2>>, <<3, 2, 1>>}
       /\ lastCountdownInt = IF ticks = <<>> THEN CountdownStart
                             ELSE ticks[Len(ticks)]

\* the countdown of horde 2 has run to its end
SecondCountdownRun ==
  /\ state = STATE_WAVE /\ hordeLevel = 2 /\ enemiesSpawnedCount = 0
  /\ ticks = <<3, 2, 1>>

\* C15: within one countdown the ticks are positive and strictly decreasing,
\* so no integer is shown twice, whatever positive dt the updates are given.
TicksStrictlyDecreasing ==
  \A k \in 1..Len(ticks) :
    /\ ticks[k] > 0
    /\ k > 1 => ticks[k] < ticks[k - 1]

\* a countdown in which a dt above one second passed over the tick 3
TickSkipped ==
  /\ state = STATE_WAVE /\ ticks = <<2, 1>>

\* the enemies that die in a step, clones or not
Deaths(clone) ==
  {i \in Indices : /\ i <= Len(enemies')
                   /\ ~enemies[i].isDead /\ enemies'[i].isDead
                   /\ (enemies[i].kind = "clone") = clone}

\* C16: a step in which enemies die adds to enemiesKilledCount exactly 1 when
\* a non-clone is among them and the state is WAVE, and nothing when only
\* clones die or the state is another.
KillCountRule ==
  [][(Len(enemies') = Len(enemies) /\ Deaths(TRUE) \cup Deaths(FALSE) # {})
       => /\ Cardinality(Deaths(FALSE)) <= 1
          /\ enemiesKilledCount' = enemiesKilledCount +
               (IF state = STATE_WAVE THEN Cardinality(Deaths(FALSE)) ELSE 0)
     ]_vars

\* outside WAVE a boss died with a clone: nothing was counted
UncountedDeathsOutsideWave ==
  /\ state # STATE_WAVE /\ enemiesKilledCount = 0
  /\ \E i, j \in Indices :
       /\ enemies[i].kind = "boss" /\ enemies[i].isDead
       /\ enemies[j].kind = "clone" /\ enemies[j].isDead

\* C17: an update of a live enemy, whatever its state and dt >= 0, leaves
\* the magnitude of pushForce no greater than it was.
PushForceDecays ==
  [][BodyUpdate => Abs(loneEnemy'.pushForce) <= Abs(loneEnemy.pushForce)]_vars

\* a stunned enemy whose pushForce an update has taken below the force of a
\* single knockback, without bringing it to rest
PushForceDecaying ==
  /\ loneEnemy.kind = "normal" /\ loneEnemy.state = "stunned"
  /\ Abs(loneEnemy.pushForce) > StunRecovery
  /\ Abs(loneEnemy.pushForce) < IceKnockback

Live == {projectiles[k] : k \in 1..Len(projectiles)}

\* C18: a projectile that strikes takes its damage from exactly one enemy,
\* once, and leaves the collection in that step; it is not hit-tested or
\* moved afterwards.
ProjectileStrikesOnce ==
  /\ [](\A id \in 1..Len(projectileObjects) :
          LET p == projectileObjects[id]
          IN  /\ p.hits <= 1
              /\ p.hits = 1 => (id \notin Live /\ ~p.touchedAfterHit))
  /\ [][\A id \in 1..Len(projectileObjects) :
          projectileObjects'[id].hits > projectileObjects[id].hits =>
            LET damage == ProjectileDamage(projectileObjects[id].type)
                struck == {i \in Indices :
                             enemies'[i].hp = enemies[i].hp - damage}
            IN  /\ id \in Live /\ id \notin Live'
                /\ Cardinality(struck) = 1
                /\ \A i \in Indices \ struck :
                     \/ enemies'[i].hp = enemies[i].hp
                     \/ /\ enemies[i].kind = "clone"
                        /\ enemies'[i].hp = enemies[i].hp - CascadeDamage
         ]_vars

\* a projectile has struck and is gone; one cast after it has been through
\* the loop and is still in flight
StruckAndGone ==
  /\ pc = "loop" /\ loopIndex = 0
  /\ \E a, b \in 1..Len(projectileObjects) :
       /\ a < b
       /\ projectileObjects[a].hits = 1 /\ a \notin Live
       /\ projectileObjects[b].hits = 0 /\ b \in Live

\* C19: one call of Game.update updates the director, then the entities,
\* then the projectiles with their collision pass: the entities of a frame
\* are updated before that frame's collision pass.
DirectorEntitiesProjectiles ==
  \/ frameLog = <<>>
  \/ frameLog = <<"director">>
  \/ frameLog = <<"director", "entities">>
  \/ frameLog = <<"director", "entities", "projectiles">>

\* C20: while the game is paused, and so no update(deltaTime) runs, no
\* pending spawn becomes an enemy and pendingSpawns does not change.
NoSpawnWhilePaused ==
  [][(isPaused /\ isPaused')
       => (enemies' = enemies /\ pendingSpawns' = pendingSpawns)]_vars

\* C21: no timer an enemy has set (flash restore, lunge reset) runs once the
\* enemy is disposed, by its death or by a reset.
NoTimerAfterDispose == ~loneEnemy.ranAfterDispose

\* an enemy died with two of its timers set: dispose cancelled both
TimersCancelledAtDeath ==
  /\ loneEnemy.isDead /\ loneEnemy.disposed
  /\ loneEnemy.cleared = 2 /\ loneEnemy.timeouts = <<>>

DeadIsInert ==
  /\ [](loneEnemy.hp <= 0 => loneEnemy.isDead)
  /\ [][(loneEnemy.isDead /\ EnemyUpdated) => loneEnemy' = loneEnemy]_vars
  /\ [][loneEnemy.isDead =>
          /\ loneEnemy'.state = loneEnemy.state
          /\ loneEnemy'.pushForce = loneEnemy.pushForce
          /\ loneEnemy'.summonTimer = loneEnemy.summonTimer
          /\ loneEnemy'.acts = loneEnemy.acts
          /\ loneEnemy'.isDead]_vars

\* a boss died stunned, its pushForce not spent and its summon timer running
BossDiedMidKnockback ==
  /\ loneEnemy.kind = "boss" /\ loneEnemy.isDead
  /\ loneEnemy.state = "stunned" /\ loneEnemy.pushForce # 0
  /\ loneEnemy.summonTimer > 0 /\ loneEnemy.timeouts = <<>>

\* C24: a takeDamage call the enemy survives leaves it stunned when a
\* knockback direction was passed; without one a wandering enemy is left
\* chasing and an enemy in another state keeps its state.
DamageAlertsOrStuns ==
  [][\A type \in ProjectileTypes, sign \in {-1, 0, 1} :
       (BodyDamage /\ loneEnemy' = knockBody(loneEnemy, type, sign)) =>
         /\ sign # 0 => loneEnemy'.state = "stunned"
         /\ sign = 0 =>
              loneEnemy'.state = IF loneEnemy.state = "wandering"
                                   THEN "chasing" ELSE loneEnemy.state]_vars

\* a boss knocked back from both sides: stunned, its pushForce cancelled out
StunnedAtRest ==
  /\ loneEnemy.kind = "boss" /\ loneEnemy.state = "stunned"
  /\ loneEnemy.pushForce = 0

\* C25: a stunned enemy that takes no further damage is chasing after
\* finitely many updates with dt > 0, and an enemy leaves the stunned state
\* only in a step that ends with its pushForce below 0.5 in magnitude.
StunEnds ==
  /\ <>[][~BodyDamage]_vars =>
       ((loneEnemy.state = "stunned") ~> (loneEnemy.state = "chasing"))
  /\ [][(loneEnemy.state = "stunned" /\ loneEnemy'.state # "stunned") =>
          /\ loneEnemy'.state = "chasing"
          /\ Abs(loneEnemy'.pushForce) < StunRecovery]_vars

\* a mini-boss knocked back twice over, still stunned with its push decaying
StunnedAndSliding ==
  /\ loneEnemy.kind = "miniBoss" /\ loneEnemy.state = "stunned"
  /\ Abs(loneEnemy.pushForce) > KnockbackForce("fireball")

\* the enemies whose hp the step changes
HpChanged == {i \in 1..Len(enemies) : enemies'[i].hp # enemies[i].hp}

\* C26 as stated: one call of checkProjectileHit changes the hp of at most
\* one enemy.
HitChangesOneHp == [][ProjectileHit => Cardinality(HpChanged) <= 1]_vars

\* C26: one call of checkProjectileHit lowers the hp of the first enemy in
\* array order that is alive, has its mesh and passes the cylinder test;
\* any other enemy whose hp changes is a live clone, killed by the cascade
\* of the boss the projectile has just killed; a dead or disposed enemy is
\* never damaged; when no enemy qualifies nothing changes.
HitStrikesFirstInOrder ==
  /\ [][ProjectileHit =>
          \E i \in 1..Len(enemies) :
            /\ ~enemies[i].isDead /\ ~enemies[i].disposed
            /\ \A j \in 1..(i - 1) :
                 enemies[j].kind = enemies[i].kind =>
                   enemies[j].isDead \/ enemies[j].disposed
            /\ enemies'[i].hp < enemies[i].hp
            /\ \A j \in HpChanged \ {i} :
                 /\ enemies[i].kind = "boss" /\ enemies'[i].isDead
                 /\ enemies[j].kind = "clone" /\ ~enemies[j].isDead]_vars
  /\ [](\A kind \in Kinds, type \in CastTypes :
          (\A i \in 1..Len(enemies) :
             enemies[i].kind = kind =>
               enemies[i].isDead \/ enemies[i].disposed)
          => checkProjectileHit(Manager, kind, type) = Manager)

\* a boss killed by a projectile and a clone killed by the cascade, both
\* still in the array
BossAndCloneFell ==
  /\ pc = "spells"
  /\ \E i, j \in 1..Len(enemies) :
       /\ enemies[i].kind = "boss" /\ enemies[i].isDead /\ enemies[i].knocked
       /\ enemies[j].kind = "clone" /\ enemies[j].isDead
       /\ ~enemies[j].knocked

InFlight(id) == \E k \in 1..Len(projectiles) : projectiles[k] = id

\* C27: every projectile leaves this.projectiles after finitely many updates
\* with dt > 0; one still there has life left and has met nothing in any of
\* its updates; one that has left has met an enemy, a barrier, the ground
\* or the end of its life, and is disposed.
ProjectilesEnd ==
  /\ \A id \in 1..MaxFlight : InFlight(id) ~> ~InFlight(id)
  /\ [](\A id \in 1..Len(projectileObjects) :
          LET p == projectileObjects[id]
          IN  /\ InFlight(id) =>
                   p.life > 0 /\ p.life <= ProjectileLife /\ p.met = {}
              /\ ~InFlight(id) => p.disposed /\ p.met # {})

\* a projectile that flew its three seconds out, and nothing else stopped it
LifeRanOut ==
  \E id \in 1..Len(projectileObjects) :
    /\ ~InFlight(id)
    /\ projectileObjects[id].met = {"life"}
    /\ projectileObjects[id].life = 0

\* the spawn requests of the wave (not of a boss's summon) that the step adds
WaveRequests ==
  Cardinality({k \in (Len(spawnTimeouts) + 1)..Len(spawnTimeouts') :
                 spawnTimeouts'[k].config.kind # "clone"})

\* C28: in the WAVE state, an update with enemies.length + pendingSpawns at
\* maxActiveEnemies or more, or with every enemy of the wave requested,
\* requests no spawn and leaves enemiesSpawnedCount and pendingSpawns as
\* they are; any other update requests exactly one spawn and adds 1 to each.
SpawnGate ==
  [][(EnemyManagerUpdate /\ state = STATE_WAVE) =>
       IF \/ Len(enemies) + pendingSpawns >= maxActiveEnemies
          \/ enemiesSpawnedCount >= totalEnemiesInWave
         THEN /\ WaveRequests = 0
              /\ enemiesSpawnedCount' = enemiesSpawnedCount
              /\ pendingSpawns' = pendingSpawns
         ELSE /\ WaveRequests = 1
              /\ enemiesSpawnedCount' = enemiesSpawnedCount + 1
              /\ pendingSpawns' = pendingSpawns + 1]_vars

\* a wave held at the limit: fifteen enemies alive or pending, more to come
WaveHeldAtLimit ==
  /\ state = STATE_WAVE /\ pc = "idle"
  /\ Len(enemies) + pendingSpawns = maxActiveEnemies
  /\ enemiesSpawnedCount < totalEnemiesInWave
  /\ frameLog # <<>>

\* the live bosses of an array
Bosses(es) ==
  {i \in 1..Len(es) : es[i].kind = "boss" /\ ~es[i].isDead /\ ~es[i].disposed}

\* the clone requests the step adds
CloneRequests ==
  Cardinality({k \in (Len(spawnTimeouts) + 1)..Len(spawnTimeouts') :
                 spawnTimeouts'[k].config.kind = "clone"})

\* C29: an update in which the summon timer of a live boss reaches 8 s sets
\* it to 0 and requests one batch of 3 to 6 clones, any other update
\* requests none; every clone is requested at a position with x and z in
\* [-45, 45]; the callback of a request adds its clone to the enemies only
\* in the WAVE or the ANNOUNCE state.
BossSummons ==
  /\ [][SummonUpdate =>
          IF Bosses(enemies) = {} THEN CloneRequests = 0
          ELSE \E i \in Bosses(enemies), j \in Bosses(enemies') :
                 IF enemies[i].summonTimer + FrameDelta >= SummonInterval
                   THEN /\ CloneRequests \in 3..6
                        /\ enemies'[j].summonTimer = 0
                   ELSE /\ CloneRequests = 0
                        /\ enemies'[j].summonTimer
                             = enemies[i].summonTimer + FrameDelta]_vars
  /\ [](\A k \in 1..Len(spawnTimeouts) :
          spawnTimeouts[k].config.kind = "clone" =>
            /\ spawnTimeouts[k].pos.x \in (0 - 45)..45
            /\ spawnTimeouts[k].pos.z \in (0 - 45)..45)
  /\ [][(/\ SpawnTimeout
         /\ Head(spawnTimeouts).config.kind = "clone"
         /\ Len(enemies') > Len(enemies))
        => state \in {STATE_WAVE, STATE_ANNOUNCE}]_vars

\* a batch summoned from the north-west corner: a clone of it in the field,
\* another still to come, requested on the arena's edge
CloneDueOnTheEdge ==
  /\ \E i \in 1..Len(enemies) :
       enemies[i].kind = "clone" /\ ~enemies[i].isDead
  /\ \E k \in 1..Len(spawnTimeouts) :
       /\ spawnTimeouts[k].config.kind = "clone"
       /\ spawnTimeouts[k].pos = [x |-> 0 - 45, z |-> 45]

\* the neighbours of enemy i that push it: alive, not itself, nearer than
\* the separation radius, not at its very position; those below it, those
\* above it
PushingUp(i) ==
  {j \in 1..Len(enemies) \ {i} :
     /\ enemies[j].state # "dead"
     /\ enemies[j].position < enemies[i].position
     /\ enemies[i].position - enemies[j].position < 250}

PushingDown(i) ==
  {j \in 1..Len(enemies) \ {i} :
     /\ enemies[j].state # "dead"
     /\ enemies[j].position > enemies[i].position
     /\ enemies[j].position - enemies[i].position < 250}

\* C30: applySeparation changes the position of its enemy and nothing else,
\* by 1.2 dt away from every live neighbour that is nearer than the radius
\* and not at the same position; the enemy itself, neighbours at distance 0
\* or at the radius or beyond, and dead enemies add nothing.
SeparationMovesOnlyItself ==
  [][Separate =>
       \E i \in 1..Len(enemies), dt \in SeparationDeltas :
         enemies' =
           [enemies EXCEPT ![i].position =
              @ + ((Cardinality(PushingUp(i)) - Cardinality(PushingDown(i)))
                     * ((dt * 120) \div 100))]]_vars

\* two live enemies pushed apart to the radius and beyond, past a dead one
\* that lies where it fell, with a third live one on top of one of them
PushedApartPastTheDead ==
  /\ Len(enemies) = 3
  /\ enemies[1].state = "chasing" /\ enemies[3].state = "chasing"
  /\ enemies[2].state = "dead"
  /\ enemies[1].position < enemies[2].position
  /\ enemies[2].position < enemies[3].position
  /\ enemies[3].position - enemies[1].position >= 250
  /\ enemies[1].position < 0
  /\ enemies[2].position = 100

\* C31: the height of an enemy's position is 0 after construction, after every
\* update and after every takeDamage, whatever the spawn height, the vertical
\* part of the knockback direction and the height of the player; the height
\* of its pushForce is always 0.
GroundedAlways ==
  /\ loneEnemy.position.y = 0
  /\ loneEnemy.pushForce.y = 0

\* spawned above the ground, struck from below or above, and updated since
LiftedAndUpdated ==
  /\ loneEnemy.spawnedAt # 0
  /\ loneEnemy.lifted
  /\ loneEnemy.pushForce.x # 0
  /\ loneEnemy.state = "attacking"

\* C32: whenever the boss reference of the director is set, it refers to an
\* alive enemy of kind boss that is in the collection; it is unset by the step
\* in which that boss dies, by every entry into the wave and by resetAll.
BossReference ==
  /\ [](currentBoss # 0
          => /\ currentBoss \in 1..Len(enemies)
             /\ enemies[currentBoss].kind = "boss"
             /\ ~enemies[currentBoss].isDead)
  /\ [][/\ (/\ currentBoss \in 1..Len(enemies)
            /\ Len(enemies') = Len(enemies)
            /\ enemies'[currentBoss].isDead) => currentBoss' = 0
        /\ (state # STATE_WAVE /\ state' = STATE_WAVE) => currentBoss' = 0
        /\ ResetGame => currentBoss' = 0]_vars

\* the boss is referred to while it stands wounded among its clones
BossReferredAmongClones ==
  /\ currentBoss \in 1..Len(enemies)
  /\ enemies[currentBoss].hp < enemies[currentBoss].maxHp
  /\ \E j \in Indices : enemies[j].kind = "clone" /\ ~enemies[j].isDead

\* C33: the player takes damage from an enemy only in an update in which the
\* enemy is alive, in state attacking and the player not farther than 1.5
\* times attackRange; two attacks of one enemy are more than the cooldown of
\* 1500 ms apart; each attack deals the damage of the archetype.
AttackRules ==
  [][loneEnemy'.taken # loneEnemy.taken
       => /\ ~loneEnemy.isDead /\ ~loneEnemy'.isDead
          /\ loneEnemy.state = "attacking"
          /\ loneEnemy'.near
          /\ loneEnemy.attacks > 0
               => loneEnemy'.lastAttackTime - loneEnemy.lastAttackTime > 15
          /\ loneEnemy'.taken - loneEnemy.taken
               = (CASE loneEnemy.kind = "miniBoss" -> 20
                    [] loneEnemy.kind = "clone" -> 5
                    [] OTHER -> 10)]_vars

\* a mini-boss has struck the player a second time
StruckTwice ==
  /\ loneEnemy.kind = "miniBoss"
  /\ loneEnemy.attacks = 2
  /\ loneEnemy.taken = 40
  /\ loneEnemy.now = loneEnemy.lastAttackTime

\* C34: a projectile created with any intensity uses the intensity clamped to
\* [0.3, 2.0], so the radius of a fireball lies in [8.4 * 0.3, 8.4 * 2.0];
\* every creation yields a projectile; damage, knockbackForce and life are
\* those of the type whatever the intensity.
IntensityClamped ==
  /\ \A type \in ProjectileTypes, intensity \in Intensities :
       SizedProjectile(type, intensity).type = type
  /\ \A k \in 1..Len(projectileObjects) :
       LET p == projectileObjects[k]
           fire == p.type = "fireball"
       IN  /\ fire /\ p.asked < 30 => p.radius = 84 * 30
           /\ fire /\ p.asked > 200 => p.radius = 84 * 200
           /\ fire /\ p.asked \in 30..200 => p.radius = 84 * p.asked
           /\ fire => p.radius \in (84 * 30)..(84 * 200)
           /\ p.damage = IF fire THEN 25 ELSE 20
           /\ p.knockbackForce = IF fire THEN 200 ELSE 100
           /\ p.life = 30

\* a fireball asked for beyond the largest intensity
FireballAskedTooLarge ==
  /\ Len(projectileObjects) = 1
  /\ projectileObjects[1].type = "fireball"
  /\ projectileObjects[1].asked > 200
  /\ projectileObjects[1].radius = 16800

PushBelowRecovery ==
  /\ loneEnemy.state \in {"wandering", "chasing", "attacking"}
       => lengthSq(loneEnemy.pushForce) < 50 * 50
  /\ loneEnemy.state = "chasing"
       => lengthSq(loneEnemy.pushForce) < 100 * 100

\* out of the stun and attacking, the rest of a knockback still on it
AttackingWhileSliding ==
  /\ loneEnemy.state = "attacking"
  /\ loneEnemy.pushForce.x > 40

\* C37: when the phase is REST, ANNOUNCE, COUNTDOWN or VICTORY, no enemy of the
\* collection is alive once the update of the director is over: every enemy
\* of a wave, clones included, is dead or discarded before the next wave
\* starts, and no enemy spawned for one level is alive in a wave of another.
QuietBetweenWaves ==
  /\ (pc = "idle" /\ state \in {"REST", "ANNOUNCE", "COUNTDOWN", "VICTORY"})
       => \A i \in Indices : enemies[i].isDead
  /\ state = "WAVE"
       => \A i \in Indices :
            ~enemies[i].isDead
              => enemies[i].maxHp
                   = (CASE enemies[i].kind = "boss" -> 400 + (hordeLevel * 50)
                        [] enemies[i].kind = "miniBoss" -> 120 + (hordeLevel * 15)
                        [] enemies[i].kind = "clone" -> 15 + hordeLevel
                        [] OTHER -> 20 + (hordeLevel * 2))

\* the boss wave is won while timeouts of its clones are still to run
WonWithClonesOnTheWay ==
  /\ pc = "idle"
  /\ state = STATE_VICTORY
  /\ hordeLevel = 5
  /\ \E k \in 1..Len(spawnTimeouts) : spawnTimeouts[k].config.kind = "clone"

\* C38: the collision callback of a projectile, which pushes one burning zone
\* for a fireball, is called at most once in the life of the projectile:
\* once when an enemy hit, a barrier or the ground consumes it, never when it
\* is removed because its life has run out.
CallbackOnce ==
  \A id \in 1..Len(projectileObjects) :
    LET p == projectileObjects[id]
    IN  /\ p.callbacks \in {0, 1}
        /\ InFlight(id) => p.callbacks = 0
        /\ ~InFlight(id)
             => (p.callbacks = 1
                   <=> p.met \cap {"hit", "barrier", "ground"} # {})
        /\ p.met = {"life"} => p.callbacks = 0
        /\ p.zones = IF p.type = "fireball" THEN p.callbacks ELSE 0

\* a fireball that a barrier stopped in the update its life ran out in
StoppedAsLifeRanOut ==
  \E id \in 1..Len(projectileObjects) :
    /\ projectileObjects[id].type = "fireball"
    /\ projectileObjects[id].met = {"barrier", "life"}
    /\ projectileObjects[id].zones = 1

\* no enemy of the wave proper is alive in the collection
Fought == \A i \in Indices : enemies[i].kind # "clone" => enemies[i].isDead

\* a timeout of executeSpawn is still to run, for any enemy / for an enemy
\* of the wave proper
RequestPending == spawnTimeouts # <<>>
WaveRequestPending ==
  \E k \in 1..Len(spawnTimeouts) : spawnTimeouts[k].config.kind # "clone"

\* C39 as stated: in a wave without reset in which every enemy of the wave
\* proper is killed, every requested spawn materializes, clone requests
\* included, spawnedCount reaches totalInWave and the phase becomes VICTORY.
EveryRequestMaterializes ==
  /\ [][SpawnTimeout => Len(enemies') = Len(enemies) + 1]_vars
  /\ ([]<>Fought)
       => /\ RequestPending ~> ~RequestPending
          /\ state = STATE_WAVE ~> enemiesSpawnedCount = totalEnemiesInWave
          /\ state = STATE_WAVE ~> state = STATE_VICTORY

\* C39, amended: in a wave without reset in which every enemy of the wave
\* proper is killed, every spawn requested by spawnNextEnemy materializes,
\* spawnedCount reaches totalInWave and the phase becomes VICTORY.
WaveEnds ==
  /\ [][(SpawnTimeout /\ Head(spawnTimeouts).config.kind # "clone")
          => Len(enemies') = Len(enemies) + 1]_vars
  /\ ([]<>Fought)
       => /\ WaveRequestPending ~> ~WaveRequestPending
          /\ state = STATE_WAVE ~> enemiesSpawnedCount = totalEnemiesInWave
          /\ state = STATE_WAVE ~> state = STATE_VICTORY

\* the wave of horde 6 is won: its seventeen enemies came through the limit
\* of fifteen and fell
LongWaveWon ==
  /\ state = STATE_VICTORY
  /\ hordeLevel = 6
  /\ enemiesKilledCount = 17
  /\ enemiesSpawnedCount = 17

\* C40: with the player at a fixed horizontal distance and no damage, the
\* state of an enemy stops changing after at most two updates, and it never
\* alternates between two states on consecutive updates.
StateSettles ==
  LET trail == loneEnemy.trail
  IN  /\ \A k \in 4..Len(trail) : trail[k] = trail[3]
      /\ \A k \in 3..Len(trail) :
           trail[k] = trail[k - 2] => trail[k - 1] = trail[k]

\* found wandering with the player within reach: chasing after one update,
\* attacking after two, and attacking still
SettledInTwo ==
  /\ Len(loneEnemy.trail) > 3
  /\ loneEnemy.trail[1] = "wandering"
  /\ loneEnemy.trail[2] = "chasing"
  /\ loneEnemy.trail[3] = "attacking"
  /\ loneEnemy.state = "attacking"

====
